---- MODULE Spec2Model ----
(***************************************************************************)
(* Model of VSTain's window feature capture widget                         *)
(* (src/src/vstain/widgets/feature_capture_widget.py): the template        *)
(* repository with its durable JSON store, template capture, and the       *)
(* match scheduler driven by a QTimer and a "match once" button.           *)
(*                                                                         *)
(* The widget lives on the Qt GUI thread.  A slot runs to completion       *)
(* before the event loop delivers the next event, so a handler is one      *)
(* action, except _perform_match, which is split at its loop so that       *)
(* "a tick is in flight" is a state: while it runs, clicks and timer       *)
(* expiries are held by the event loop and delivered afterwards.           *)
(* Under Spec debug_visual stays False (its initial value), so no nested   *)
(* event loop (cv2.waitKey) runs inside a handler; DebugSpec follows the   *)
(* widget with the debug check box ticked.                                 *)
(*                                                                         *)
(* Encodings: Python None is -1 for a count and a record with isNone for   *)
(* a template; a confidence is kept as the pair inliers / good matches and *)
(* a threshold in percent.                                                 *)
(***************************************************************************)
EXTENDS Integers, Sequences, FiniteSets, TLC

\* ---------------------------------------------------------------- bounds
\* longest template_list the model follows (imports may add duplicates)
MaxList == 2
\* clicks the event loop holds while a tick is in flight
MaxPending == 1

\* template names the operator may type or a file may hold; "" is an empty
\* name field
Names == {"a", "b"}

NoCount == -1

\* ------------------------------------------------------- feature template
\* FeatureTemplate: descriptors is the number of rows of the descriptor
\* matrix (NoCount for None), keypoints the length of the keypoint list
\* (NoCount for None).
FeatureTemplate(name, confidence_threshold, keypoints, descriptors) ==
    [isNone |-> FALSE, name |-> name,
     confidence_threshold |-> confidence_threshold,
     keypoints |-> keypoints, descriptors |-> descriptors]

\* the value None where a FeatureTemplate is expected
NoneTemplate ==
    [isNone |-> TRUE, name |-> "", confidence_threshold |-> 0,
     keypoints |-> NoCount, descriptors |-> NoCount]

\* A serialized record of the durable store.  name = "" stands for a record
\* without the "name"/"position" keys; descriptors is "absent" (no key),
\* "b64" (decodable payload) or "garbled" (payload that base64/zlib
\* rejects); keypoints_info is the number of compact keypoint rows, NoCount
\* when the key is absent.
Entry(name, confidence_threshold, descriptors, shape, keypoints_info) ==
    [name |-> name, confidence_threshold |-> confidence_threshold,
     descriptors |-> descriptors, descriptors_shape |-> shape,
     keypoints_info |-> keypoints_info]

\* to_dict without the keypoints_info key
ToDictWithoutKeypoints(t) ==
    Entry(t.name, t.confidence_threshold,
          IF t.descriptors # NoCount THEN "b64" ELSE "absent",
          IF t.descriptors # NoCount THEN t.descriptors ELSE NoCount,
          NoCount)

\* FeatureTemplate.to_dict
to_dict(t) ==
    Entry(t.name, t.confidence_threshold,
          IF t.descriptors # NoCount THEN "b64" ELSE "absent",
          IF t.descriptors # NoCount THEN t.descriptors ELSE NoCount,
          IF t.keypoints > 0 THEN t.keypoints ELSE NoCount)

\* FeatureTemplate.from_dict: returns None when the descriptors do not
\* decode, raises KeyError when "name" is missing, otherwise builds the
\* template (keypoints None when there is no keypoints_info).
from_dict(d) ==
    IF d.descriptors = "garbled"
    THEN [raised |-> FALSE, tpl |-> NoneTemplate]
    ELSE IF d.name = ""
    THEN [raised |-> TRUE, tpl |-> NoneTemplate]
    ELSE [raised |-> FALSE,
          tpl |-> FeatureTemplate(
                     d.name, d.confidence_threshold,
                     IF d.keypoints_info > 0 THEN d.keypoints_info ELSE NoCount,
                     IF d.descriptors = "b64" THEN d.descriptors_shape ELSE NoCount)]

\* ------------------------------------------------- dict of name -> template
\* self.feature_templates is a Python dict: a sequence of items in insertion
\* order with unique keys.
Item(key, tpl) == [key |-> key, tpl |-> tpl]

Keys(d) == {d[i].key : i \in 1..Len(d)}

IndexOf(d, key) == CHOOSE i \in 1..Len(d) : d[i].key = key

\* d[key] = tpl: a new key is appended, an existing key keeps its place
Put(d, key, tpl) ==
    IF key \in Keys(d)
    THEN [d EXCEPT ![IndexOf(d, key)] = Item(key, tpl)]
    ELSE Append(d, Item(key, tpl))

\* del d[key]
Del(d, key) ==
    LET i == IndexOf(d, key)
    IN SubSeq(d, 1, i - 1) \o SubSeq(d, i + 1, Len(d))

\* --------------------------------------------------------- matching pipeline
\* A scene frame stands for what OpenCV computes on it: "flat" is a frame
\* with little structure, "hit" one in which the templates are found.
\* "None" is the capture collaborator returning no frame.
NoFrame == "None"

Frames == {"flat", "hit"}

\* len(des2) of orb_scene.detectAndCompute(image)
SceneDescriptors(image) == IF image = "hit" THEN 60 ELSE 40

\* scene descriptors that pass the ratio test against some template row
SceneGood(image) == IF image = "hit" THEN 8 ELSE 0

\* cv2.findHomography finds H
SceneHomography(image) == image = "hit"

\* correspondences RANSAC marks as inliers
SceneInliers(image) == IF image = "hit" THEN 8 ELSE 0

MinSceneDescriptors == 50
MinGoodMatches == 6

Min(x, y) == IF x <= y THEN x ELSE y

Max(x, y) == IF x >= y THEN x ELSE y

\* image.shape of a frame, in pixels
Shape(image) == [width |-> 4, height |-> 4]

\* least and greatest x, and y, of the template's corners projected
\* through H and truncated to int (x_coords, y_coords)
SceneCornersX(image) == <<1, 3>>

SceneCornersY(image) == <<1, 3>>

\* what OpenCV computes on a scene image for a template: descriptors is
\* len(des2) (NoCount for None), good the scene's ratio-test survivors,
\* homography whether findHomography returns H, inliers sum(mask),
\* x_coords and y_coords the min and max over matched_corners
Scene(descriptors, good, homography, inliers, x_coords, y_coords, shape) ==
    [descriptors |-> descriptors, good |-> good, homography |-> homography,
     inliers |-> inliers, x_coords |-> x_coords, y_coords |-> y_coords,
     shape |-> shape]

SceneOf(image) ==
    Scene(SceneDescriptors(image), SceneGood(image), SceneHomography(image),
          SceneInliers(image), SceneCornersX(image), SceneCornersY(image),
          Shape(image))

NoPosition == [x |-> 0, y |-> 0, width |-> 0, height |-> 0]

NoResult == [template |-> "", inliers |-> 0, good |-> 0, position |-> NoPosition]

Outcome(status, result) == [status |-> status, result |-> result]

\* the "position" of a result: the bounding box of the projected corners,
\* cut at 0 on its low side and at the image's size on its high side
Position(x_coords, y_coords, shape) ==
    LET x_min == Max(0, x_coords[1])
        x_max == Min(shape.width, x_coords[2])
        y_min == Max(0, y_coords[1])
        y_max == Min(shape.height, y_coords[2])
    IN [x |-> x_min, y |-> y_min,
        width |-> x_max - x_min, height |-> y_max - y_min]

\* _match_template on what OpenCV computes: "none" for return None,
\* "match" for a result, "raise" for an exception leaving the function
\* (AttributeError on a None template, TypeError/IndexError on
\* template.keypoints[m.queryIdx]).  knnMatch yields one candidate per
\* template descriptor, so at most len(template.descriptors) candidates
\* survive the ratio test.
MatchPipeline(template, scene) ==
    IF template.isNone THEN Outcome("raise", NoResult)
    ELSE IF template.descriptors = NoCount \/ template.descriptors = 0
    THEN Outcome("none", NoResult)
    ELSE IF scene.descriptors = NoCount
            \/ scene.descriptors < MinSceneDescriptors
    THEN Outcome("none", NoResult)
    ELSE LET good == Min(template.descriptors, scene.good)
             inliers == Min(good, scene.inliers)
         IN IF good < MinGoodMatches THEN Outcome("none", NoResult)
            ELSE IF template.keypoints < good THEN Outcome("raise", NoResult)
            ELSE IF ~scene.homography THEN Outcome("none", NoResult)
            ELSE IF inliers * 100 < template.confidence_threshold * good
            THEN Outcome("none", NoResult)
            ELSE Outcome("match",
                         [template |-> template.name,
                          inliers |-> inliers, good |-> good,
                          position |-> Position(scene.x_coords,
                                                scene.y_coords, scene.shape)])

\* _match_template(template, image) for a frame of the model
MatchTemplate(template, image) == MatchPipeline(template, SceneOf(image))

\* ------------------------------------------------------------ durable store
\* confidence_spin's initial value, in percent
DefaultThreshold == 50

\* records a store file can hold under key n: well formed, without
\* keypoints_info, with undecodable descriptors, without "name"
FileEntries(n) ==
    {Entry(n, DefaultThreshold, "b64", 8, 8),
     Entry(n, DefaultThreshold, "b64", 8, NoCount),
     Entry(n, DefaultThreshold, "garbled", 8, 8),
     Entry("", DefaultThreshold, "b64", 8, 8)}

\* contents of a JSON file of templates: items in file order, unique keys.
\* One item under "a", or one under "a" followed by one under "b".
Files ==
    {<<>>}
    \cup {<<Item("a", e)>> : e \in FileEntries("a")}
    \cup {<<Item("a", e), Item("b", f)>> :
            e \in FileEntries("a"), f \in FileEntries("b")}

\* --------------------------------------------------------------- ImageViewer
\* ViewerSpec follows one ImageViewer (components/image_viewer.py) shown in
\* a widget of WidgetWidth x WidgetHeight pixels; the feature capture
\* widget is left aside.  A float (zoom, pan, image and normalized
\* coordinates) is a fixed-point number with Q units to 1.0, and every
\* product and quotient is rounded to the nearest unit, as a float operation
\* rounds to the nearest float.  Mouse positions are whole pixels
\* (QPointF(event.pos())).
Q == 1000

\* self.rect() of the viewer
WidgetWidth == 8

WidgetHeight == 8

\* _min_zoom = 0.05, _max_zoom = 40.0, _wheel_ratio = 1.1, in units of 1/Q
MinZoom == 50

MaxZoom == 40000

WheelRatio == 1100

\* the threshold of mouseReleaseEvent on the dragged rectangle, in pixels
MinDrag == 3

\* changes of the view (a zoom that changes the zoom, a pan move) the model
\* follows from the view it starts with
MaxViewSteps == 1

\* a / b rounded to the nearest integer, b > 0
RoundDiv(a, b) == (2 * a + b) \div (2 * b)

\* product and quotient of two fixed-point numbers
Mul(a, b) == RoundDiv(a * b, Q)

Div(a, b) == RoundDiv(a * Q, b)

Abs(a) == IF a < 0 THEN 0 - a ELSE a

\* QPointF, QRectF, QRect
Point(x, y) == [x |-> x, y |-> y]

Rect(x, y, width, height) == [x |-> x, y |-> y, width |-> width, height |-> height]

\* None where a point, a Region or a pixmap is expected: a value with no
\* field
None == <<>>

\* a QPixmap by its size in pixels
Pixmap(width, height) == [width |-> width, height |-> height]

\* the images the model loads: a 4 x 2 one shown enlarged and letterboxed,
\* a 12 x 12 one shown reduced, by a scale (2/3) that the arithmetic rounds
Pixmaps == {Pixmap(4, 2), Pixmap(12, 12)}

\* positions of the mouse: one above a letterboxed image, one inside it or
\* below it
Points == {Point(1, 1), Point(6, 7)}

InWidget(p) ==
    /\ 0 <= p.x /\ p.x < WidgetWidth
    /\ 0 <= p.y /\ p.y < WidgetHeight

\* a whole-pixel point as a float point
Float(p) == Point(p.x * Q, p.y * Q)

Tools == {"view", "pan", "select"}

Buttons == {"left", "right"}

\* _fit_rect: the image's rectangle at zoom 1, pan 0
FitRect(pixmap) ==
    IF pixmap = None THEN None
    ELSE LET cw == Max(Q, WidgetWidth * Q)
             ch == Max(Q, WidgetHeight * Q)
             iw == pixmap.width * Q
             ih == pixmap.height * Q
             scale == Min(Div(cw, iw), Div(ch, ih))
             w == Mul(iw, scale)
             h == Mul(ih, scale)
         IN Rect(RoundDiv(cw - w, 2), RoundDiv(ch - h, 2), w, h)

\* _scale: widget pixels per image pixel
Scale(pixmap, zoom) ==
    IF FitRect(pixmap) = None THEN Q
    ELSE Mul(Div(FitRect(pixmap).width, pixmap.width * Q), zoom)

\* display_to_image; s <= 1e-9 is s <= 0 at this resolution
display_to_image(pixmap, zoom, pan, p) ==
    IF FitRect(pixmap) = None THEN None
    ELSE LET fr == FitRect(pixmap)
             s == Scale(pixmap, zoom)
         IN IF s <= 0 THEN None
            ELSE Point(Div(p.x - (fr.x + pan.x), s),
                       Div(p.y - (fr.y + pan.y), s))

\* image_to_display without the pan
ImageToDisplayWithoutPan(pixmap, zoom, pan, p) ==
    IF FitRect(pixmap) = None THEN None
    ELSE Point(FitRect(pixmap).x + Mul(p.x, Scale(pixmap, zoom)),
               FitRect(pixmap).y + Mul(p.y, Scale(pixmap, zoom)))

\* image_to_display
image_to_display(pixmap, zoom, pan, p) ==
    IF FitRect(pixmap) = None THEN None
    ELSE LET fr == FitRect(pixmap)
             s == Scale(pixmap, zoom)
         IN Point(fr.x + pan.x + Mul(p.x, s), fr.y + pan.y + Mul(p.y, s))

\* image_to_normalized
image_to_normalized(pixmap, p) ==
    IF pixmap = None THEN None
    ELSE Point(Div(p.x, pixmap.width * Q), Div(p.y, pixmap.height * Q))

\* a clamp that clamps nothing
ClampNothing(pixmap, p) == p

\* _clamp_image_point
ClampImagePoint(pixmap, p) ==
    IF pixmap = None THEN p
    ELSE Point(Min(Max(p.x, 0), pixmap.width * Q),
               Min(Max(p.y, 0), pixmap.height * Q))

\* Region
Region(display, normalized, image) ==
    [display |-> display, normalized |-> normalized, image |-> image]

\* int() of a float: the fraction is dropped
Trunc(a) == IF a >= 0 THEN a \div Q ELSE 0 - ((0 - a) \div Q)

\* the Region of the rectangle between the clamped image points p1 and p2
RegionBetween(pixmap, dr, p1, p2) ==
    LET x1 == Min(p1.x, p2.x)
        y1 == Min(p1.y, p2.y)
        x2 == Max(p1.x, p2.x)
        y2 == Max(p1.y, p2.y)
        n1 == image_to_normalized(pixmap, Point(x1, y1))
        n2 == image_to_normalized(pixmap, Point(x2, y2))
        nx1 == Max(0, Min(n1.x, n2.x))
        ny1 == Max(0, Min(n1.y, n2.y))
        nx2 == Min(Q, Max(n1.x, n2.x))
        ny2 == Min(Q, Max(n1.y, n2.y))
    IN Region(dr,
              Rect(nx1, ny1, Max(0, nx2 - nx1), Max(0, ny2 - ny1)),
              Rect(Trunc(x1), Trunc(y1),
                   Max(1, Trunc(x2 - x1)), Max(1, Trunc(y2 - y1))))

\* _build_region_from_display_rect without its test for an empty region
BuildRegionKeepsEmpty(pixmap, zoom, pan, dr) ==
    IF pixmap = None THEN None
    ELSE LET q1 == display_to_image(pixmap, zoom, pan,
                                    Float(Point(dr.x, dr.y)))
             q2 == display_to_image(pixmap, zoom, pan,
                                    Float(Point(dr.x + dr.width,
                                                dr.y + dr.height)))
         IN IF q1 = None \/ q2 = None THEN None
            ELSE RegionBetween(pixmap, dr, ClampImagePoint(pixmap, q1),
                               ClampImagePoint(pixmap, q2))

\* _build_region_from_display_rect: dr is the dragged rectangle in whole
\* pixels
BuildRegion(pixmap, zoom, pan, dr) ==
    IF pixmap = None THEN None
    ELSE LET q1 == display_to_image(pixmap, zoom, pan,
                                    Float(Point(dr.x, dr.y)))
             q2 == display_to_image(pixmap, zoom, pan,
                                    Float(Point(dr.x + dr.width,
                                                dr.y + dr.height)))
         IN IF q1 = None \/ q2 = None THEN None
            ELSE LET p1 == ClampImagePoint(pixmap, q1)
                     p2 == ClampImagePoint(pixmap, q2)
                 IN IF Abs(p2.x - p1.x) < Q \/ Abs(p2.y - p1.y) < Q
                    THEN None
                    ELSE RegionBetween(pixmap, dr, p1, p2)

\* the outcome of _apply_zoom: whether it went past its first return, and
\* the zoom and pan it leaves
Zoomed(changed, zoom, pan) == [changed |-> changed, zoom |-> zoom, pan |-> pan]

\* the anchor of a zoom that has none: the widget's centre
Centre == Point(RoundDiv(WidgetWidth * Q, 2), RoundDiv(WidgetHeight * Q, 2))

\* _apply_zoom without the clamp of new_zoom
ApplyZoomUnclamped(pixmap, zoom, pan, new_zoom, anchor) ==
    IF new_zoom = zoom THEN Zoomed(FALSE, zoom, pan)
    ELSE IF FitRect(pixmap) = None THEN Zoomed(TRUE, new_zoom, pan)
    ELSE LET fr == FitRect(pixmap)
             a == IF anchor = None THEN Centre ELSE anchor
             img_before == display_to_image(pixmap, zoom, pan, a)
         IN IF img_before = None THEN Zoomed(TRUE, new_zoom, pan)
            ELSE LET s == Scale(pixmap, new_zoom)
                 IN Zoomed(TRUE, new_zoom,
                           Point(a.x - fr.x - Mul(img_before.x, s),
                                 a.y - fr.y - Mul(img_before.y, s)))

\* _apply_zoom that leaves the pan as it was
ApplyZoomKeepsPan(pixmap, zoom, pan, new_zoom, anchor) ==
    LET clamped == Max(MinZoom, Min(MaxZoom, new_zoom))
    IN IF clamped = zoom THEN Zoomed(FALSE, zoom, pan)
       ELSE Zoomed(TRUE, clamped, pan)

\* _apply_zoom without its return on an unchanged zoom
ApplyZoomAlways(pixmap, zoom, pan, new_zoom, anchor) ==
    LET clamped == Max(MinZoom, Min(MaxZoom, new_zoom))
    IN IF FitRect(pixmap) = None THEN Zoomed(TRUE, clamped, pan)
       ELSE LET fr == FitRect(pixmap)
                a == IF anchor = None THEN Centre ELSE anchor
                img_before == display_to_image(pixmap, zoom, pan, a)
            IN IF img_before = None THEN Zoomed(TRUE, clamped, pan)
               ELSE LET s == Scale(pixmap, clamped)
                    IN Zoomed(TRUE, clamped,
                              Point(a.x - fr.x - Mul(img_before.x, s),
                                    a.y - fr.y - Mul(img_before.y, s)))

\* _apply_zoom(new_zoom, anchor): abs(new_zoom - zoom) < 1e-9 is equality at
\* this resolution
ApplyZoom(pixmap, zoom, pan, new_zoom, anchor) ==
    LET clamped == Max(MinZoom, Min(MaxZoom, new_zoom))
    IN IF clamped = zoom THEN Zoomed(FALSE, zoom, pan)
       ELSE IF FitRect(pixmap) = None THEN Zoomed(TRUE, clamped, pan)
       ELSE LET fr == FitRect(pixmap)
                a == IF anchor = None THEN Centre ELSE anchor
                img_before == display_to_image(pixmap, zoom, pan, a)
            IN IF img_before = None THEN Zoomed(TRUE, clamped, pan)
               ELSE LET s == Scale(pixmap, clamped)
                    IN Zoomed(TRUE, clamped,
                              Point(a.x - fr.x - Mul(img_before.x, s),
                                    a.y - fr.y - Mul(img_before.y, s)))

\* a zoom as the float that holds it: a float keeps a fixed number of
\* significant digits, so a larger value is held more coarsely; here a
\* zoom below 10.0 is held to 1/1000 and one from 10.0 on to 1/100
Sig(zoom) == IF zoom >= 10 * Q THEN 10 * RoundDiv(zoom, 10) ELSE zoom

\* the product with the ratio taken twice
ZoomTimesTwice(zoom) == Sig(Mul(Mul(zoom, WheelRatio), WheelRatio))

\* self._zoom * self._wheel_ratio
ZoomTimes(zoom) == Sig(Mul(zoom, WheelRatio))

\* self._zoom / self._wheel_ratio
ZoomOver(zoom) == Sig(Div(zoom, WheelRatio))

\* zoom_in() (up) or zoom_out() on the view v
ZoomStep(pixmap, v, up) ==
    ApplyZoom(pixmap, v.zoom, v.pan,
              IF up THEN ZoomTimes(v.zoom) ELSE ZoomOver(v.zoom),
              None)

\* the view after set_image(pixmap) and then k calls of zoom_in() (k > 0)
\* or -k calls of zoom_out() (k < 0); a call that finds the zoom at its
\* bound leaves the view as it is, and so does every call after it
RECURSIVE ZoomedBy(_, _)
ZoomedBy(pixmap, k) ==
    IF k = 0 THEN Zoomed(TRUE, Q, Point(0, 0))
    ELSE LET before == ZoomedBy(pixmap, IF k > 0 THEN k - 1 ELSE k + 1)
         IN IF before.changed THEN ZoomStep(pixmap, before, k > 0)
            ELSE before

\* numbers of zoom calls after which the model starts: none, one short of
\* the call that takes the zoom past 10.0, one short of the call that is
\* clamped at _max_zoom, up to the call that is clamped at _min_zoom
ZoomStarts == {0, 24, 38, -32}

\* ------------------------------------------------------------------- state
VARIABLES
    phase,                  \* "new" before _load_templates, "idle", "tick",
                            \* "waitkey" inside cv2.waitKey of a tick
    current_hwnd,           \* TRUE when a window handle is connected
    feature_templates,      \* dict name -> FeatureTemplate (or None)
    template_list,          \* items of the QListWidget, top to bottom
    file_exists,            \* feature_templates.json exists
    templates_file,         \* its items
    is_matching,            \* scheduler Running
    match_timer,            \* periodic triggers armed on _perform_match
    timeout_pending,        \* the timer expired while the thread was busy
    current_window_image,   \* last captured frame or NoFrame
    match_reported,         \* current_match_results is not None
    current_match_results,  \* last reported batch
    tick_source,            \* what invoked the tick in flight
    tick_img,               \* screenshot_img of the tick in flight
    tick_i,                 \* position of the loop over the templates
    results,                \* results collected by the tick in flight
    pending,                \* clicks held by the event loop
    last_event,             \* handler that ran last, and how it ended
    debug_visual,           \* the debug check box
    di_used,                \* size of the dict when the tick's iterator
                            \* over feature_templates.items() was made
    mt_template,            \* a call of _match_template: its template,
    mt_scene,               \* what OpenCV computes on its image,
    mt_return,              \* and how it ended
    _pixmap,                \* ImageViewer: the image shown, or None
    _tool,                  \* "view", "pan" or "select"
    _zoom,                  \* zoom factor, in units of 1/Q
    _pan,                   \* pan in widget pixels, in units of 1/Q
    _panning,               \* a pan drag is under way
    _pan_last,              \* last mouse position of the pan drag
    _selecting,             \* a selection drag is under way
    _sel_start,             \* where it was pressed
    _sel_end,               \* where the mouse was seen last
    _selection,             \* the Region selected last, or None
    viewer_event,           \* the viewer's handler that ran last and the
                            \* signals it emitted
    view_steps,             \* changes of zoom or pan made by _apply_zoom
                            \* and by pan drags
    selected_region,        \* the widget's Region chosen in the preview, or
                            \* None
    position,               \* the rectangle of the last capture's crop
    _features,              \* UniversalImageViewer: the features enabled
    _mode,                  \* its interaction mode
    _zoom_factor,           \* its zoom, in units of 1/Q
    _pan_offset             \* its pan in widget pixels, in units of 1/Q

widget == <<phase, current_hwnd, feature_templates,
            template_list, file_exists, templates_file, is_matching,
            match_timer, timeout_pending, current_window_image,
            match_reported, current_match_results, tick_source, tick_img,
            tick_i, results, pending, last_event>>

debug == <<debug_visual, di_used>>

matcher == <<mt_template, mt_scene, mt_return>>

\* what MatchSpec follows, the widget being left alone
viewer == <<_pixmap, _tool, _zoom, _pan, _panning, _pan_last, _selecting,
            _sel_start, _sel_end, _selection, viewer_event, view_steps>>

\* the widget's side of the preview
preview == <<selected_region, position>>

\* a UniversalImageViewer, but for its _pixmap
universal == <<_features, _mode, _zoom_factor, _pan_offset>>

pure == <<matcher, viewer, preview, universal>>

vars == <<widget, debug, pure>>

\* the phases in which an event loop hands events to the widget's slots:
\* Qt's own loop between handlers, and the loop of cv2.waitKey(0) inside
\* _match_template when debug_visual is set
Dispatching == {"idle", "waitkey"}

repo == <<feature_templates, template_list>>
store == <<file_exists, templates_file>>
sched == <<is_matching, match_timer, timeout_pending>>
shown == <<current_window_image, match_reported, current_match_results>>
tick == <<tick_source, tick_img, tick_i, results>>

\* what the last handler was, the template name it was about, and whether
\* its _save_templates call succeeded ("ok"), failed ("failed") or was not
\* made ("none")
Event(op, name, save) == [op |-> op, name |-> name, save |-> save]

\* _match_template has not returned
NotCalled == Outcome("not called", NoResult)

\* no call of _match_template is followed: there are no arguments
NoCall == <<>>

MatcherIdle ==
    /\ mt_template = NoCall
    /\ mt_scene = NoCall
    /\ mt_return = NotCalled

\* the widget right before __init__ calls _load_templates (line 218),
\* whatever the store file
WidgetNew ==
    /\ phase = "new"
    /\ current_hwnd = FALSE
    /\ feature_templates = <<>>
    /\ template_list = <<>>
    /\ is_matching = FALSE
    /\ match_timer = 0
    /\ timeout_pending = FALSE
    /\ current_window_image = NoFrame
    /\ match_reported = FALSE
    /\ current_match_results = <<>>
    /\ tick_source = "none"
    /\ tick_img = NoFrame
    /\ tick_i = 0
    /\ results = <<>>
    /\ pending = <<>>
    /\ last_event = Event("init", "", "none")
    /\ debug_visual = FALSE
    /\ di_used = 0
    /\ selected_region = None
    /\ position = None

\* a UniversalImageViewer as its __init__ leaves it, but for _pixmap
UniversalNew ==
    /\ _features = {}
    /\ _mode = "view"
    /\ _zoom_factor = Q
    /\ _pan_offset = Point(0, 0)

\* a viewer as ImageViewer.__init__ leaves it
ViewerIdle ==
    /\ _pixmap = None
    /\ _tool = "view"
    /\ _zoom = Q
    /\ _pan = Point(0, 0)
    /\ _panning = FALSE
    /\ _pan_last = None
    /\ _selecting = FALSE
    /\ _sel_start = None
    /\ _sel_end = None
    /\ _selection = None
    /\ viewer_event = [op |-> "init", emitted |-> <<>>]
    /\ view_steps = 0

\* a viewer after set_image(pixmap) and a run of zoom_in() or zoom_out()
ViewerZoomed ==
    \E pixmap \in Pixmaps, k \in ZoomStarts :
        /\ _pixmap = pixmap
        /\ _tool = "view"
        /\ _zoom = ZoomedBy(pixmap, k).zoom
        /\ _pan = ZoomedBy(pixmap, k).pan
        /\ _panning = FALSE
        /\ _pan_last = None
        /\ _selecting = FALSE
        /\ _sel_start = None
        /\ _sel_end = None
        /\ _selection = None
        /\ viewer_event = [op |-> IF k = 0 THEN "set_image"
                                  ELSE IF k > 0 THEN "zoom_in" ELSE "zoom_out",
                           emitted |-> <<"zoom_changed">>]
        /\ view_steps = 0

Init ==
    /\ WidgetNew
    /\ file_exists \in BOOLEAN
    /\ templates_file \in (IF file_exists THEN Files ELSE {<<>>})
    /\ MatcherIdle
    /\ ViewerIdle
    /\ UniversalNew

\* the widget left aside, with no store file
WidgetAside ==
    /\ WidgetNew
    /\ file_exists = FALSE
    /\ templates_file = <<>>

\* ------------------------------------------------------------ persistence
\* the loop of _load_templates and _import_templates over data.items():
\* each item is stored under its key as from_dict returns it, a None
\* included, and its name is added to the list; an exception leaves the
\* loop with the items before it kept.
RECURSIVE ReadItems(_, _, _)
ReadItems(items, templates, list) ==
    IF items = <<>>
    THEN [templates |-> templates, list |-> list, raised |-> FALSE]
    ELSE LET r == from_dict(Head(items).tpl)
         IN IF r.raised
            THEN [templates |-> templates, list |-> list, raised |-> TRUE]
            ELSE ReadItems(Tail(items),
                           Put(templates, Head(items).key, r.tpl),
                           Append(list, Head(items).key))

\* _load_templates, the last statement of __init__
LoadTemplates ==
    /\ phase = "new"
    /\ phase' = "idle"
    /\ IF ~file_exists
       THEN /\ UNCHANGED repo
            /\ last_event' = Event("load_nofile", "", "none")
       ELSE LET r == ReadItems(templates_file, feature_templates, template_list)
            IN /\ feature_templates' = r.templates
               /\ template_list' = r.list
               /\ last_event' = Event(IF r.raised THEN "load_failed" ELSE "load",
                                      "", "none")
    /\ UNCHANGED <<store, sched, current_hwnd, shown, tick, pending>>

\* _save_templates: every template is serialized, then the file is rewritten
\* in full; an exception (tpl.to_dict() on a None in the dict) is caught and
\* logged before the file is opened and leaves the file as it was.
SaveFails(templates) ==
    \E i \in 1..Len(templates) : templates[i].tpl.isNone

Serialized(templates) ==
    [i \in 1..Len(templates) |->
        Item(templates[i].key, to_dict(templates[i].tpl))]

SaveTemplates(templates) ==
    IF SaveFails(templates)
    THEN UNCHANGED store
    ELSE /\ file_exists' = TRUE
         /\ templates_file' = Serialized(templates)

SaveStatus(templates) ==
    IF SaveFails(templates) THEN "failed" ELSE "ok"

\* _import_templates: the operator picks a file (picked = FALSE: the dialog
\* is cancelled); its items are read like those of the store.  Nothing is
\* saved.
ImportTemplates(picked, data) ==
    /\ phase = "idle"
    /\ IF ~picked
       THEN /\ UNCHANGED repo
            /\ last_event' = Event("import_cancelled", "", "none")
       ELSE LET r == ReadItems(data, feature_templates, template_list)
            IN /\ Len(template_list) + Len(data) <= MaxList
               /\ feature_templates' = r.templates
               /\ template_list' = r.list
               /\ last_event' = Event(IF r.raised THEN "import_failed"
                                      ELSE IF data = <<>> THEN "import_empty"
                                      ELSE "import", "", "none")
    /\ UNCHANGED <<phase, store, sched, current_hwnd, shown, tick>>

\* _delete_template with the list's current item at row (0: no current
\* item).  del raises KeyError when the name is not a key of the dict, and
\* the handler ends there.
DeleteTemplate(row) ==
    /\ phase \in Dispatching
    /\ IF row = 0
       THEN /\ UNCHANGED <<repo, store>>
            /\ last_event' = Event("delete_noitem", "", "none")
       ELSE LET name == template_list[row]
            IN IF name \notin Keys(feature_templates)
               THEN /\ UNCHANGED <<repo, store>>
                    /\ last_event' = Event("delete_keyerror", name, "none")
               ELSE /\ feature_templates' = Del(feature_templates, name)
                    /\ template_list' =
                         SubSeq(template_list, 1, row - 1)
                         \o SubSeq(template_list, row + 1, Len(template_list))
                    /\ SaveTemplates(feature_templates')
                    /\ last_event' =
                         Event("delete", name,
                               SaveStatus(feature_templates'))
    /\ UNCHANGED <<phase, sched, current_hwnd, shown, tick>>

\* ------------------------------------------------------------------ window
\* _update_preview's effect on the widget: a frame replaces
\* current_window_image, no frame leaves it
Preview(connected, shot) ==
    IF connected /\ shot # NoFrame THEN shot ELSE current_window_image

\* _update_preview (the refresh button)
UpdatePreview(shot) ==
    /\ phase = "idle"
    /\ current_window_image' = Preview(current_hwnd, shot)
    /\ last_event' = Event("preview", "", "none")
    /\ UNCHANGED <<phase, current_hwnd, repo, store, sched, match_reported,
                   current_match_results, tick>>

\* _connect_to_window: selected is whether a window was picked in the list
\* (current_window_title and current_window_class are set), found whether
\* get_hwnd_by_class_and_title returns a handle
ConnectToWindow(selected, found, shot) ==
    /\ phase = "idle"
    /\ IF ~selected
       THEN /\ UNCHANGED <<current_hwnd, current_window_image>>
            /\ last_event' = Event("connect_noselection", "", "none")
       ELSE IF found
       THEN /\ current_hwnd' = TRUE
            /\ current_window_image' = Preview(TRUE, shot)
            /\ last_event' = Event("connect", "", "none")
       ELSE /\ UNCHANGED <<current_hwnd, current_window_image>>
            /\ last_event' = Event("connect_failed", "", "none")
    /\ UNCHANGED <<phase, repo, store, sched,
                   match_reported, current_match_results, tick>>

\* ----------------------------------------------------------------- capture
\* rows of the descriptor matrix orb_template.detectAndCompute may return
\* for a crop (NoCount: None)
ExtractOutcomes == {NoCount, 0, 8}

\* the capture handler without its check of the name against the dict
CaptureWithoutDuplicateCheck(name, rows) ==
    /\ phase \in Dispatching
    /\ IF current_window_image = NoFrame \/ name = ""
       THEN /\ UNCHANGED <<repo, store>>
            /\ last_event' = Event("capture_notready", name, "none")
       ELSE IF rows = NoCount \/ rows = 0
       THEN /\ UNCHANGED <<repo, store>>
            /\ last_event' = Event("capture_nofeatures", name, "none")
       ELSE /\ feature_templates' =
                 Put(feature_templates, name,
                     FeatureTemplate(name, DefaultThreshold, rows, rows))
            /\ template_list' = Append(template_list, name)
            /\ SaveTemplates(feature_templates')
            /\ last_event' = Event("capture", name,
                                   SaveStatus(feature_templates'))
    /\ UNCHANGED <<phase, sched, current_hwnd, shown, tick>>

\* the capture handler testing "descriptors is None" only, so that an
\* empty descriptor matrix is accepted
CaptureChecksNoneOnly(name, rows) ==
    /\ phase \in Dispatching
    /\ IF current_window_image = NoFrame \/ name = ""
       THEN /\ UNCHANGED <<repo, store>>
            /\ last_event' = Event("capture_notready", name, "none")
       ELSE IF name \in Keys(feature_templates)
       THEN /\ UNCHANGED <<repo, store>>
            /\ last_event' = Event("capture_duplicate", name, "none")
       ELSE IF rows = NoCount
       THEN /\ UNCHANGED <<repo, store>>
            /\ last_event' = Event("capture_nofeatures", name, "none")
       ELSE /\ feature_templates' =
                 Put(feature_templates, name,
                     FeatureTemplate(name, DefaultThreshold, rows, rows))
            /\ template_list' = Append(template_list, name)
            /\ SaveTemplates(feature_templates')
            /\ last_event' = Event("capture", name,
                                   SaveStatus(feature_templates'))
    /\ UNCHANGED <<phase, sched, current_hwnd, shown, tick>>

\* _capture_feature_template with the stripped text of template_name_edit
\* and the extractor's outcome
CaptureFeatureTemplate(name, rows) ==
    /\ phase \in Dispatching
    /\ IF current_window_image = NoFrame \/ name = ""
       THEN /\ last_event' = Event("capture_notready", name, "none")
            /\ UNCHANGED <<repo, store>>
       ELSE IF name \in Keys(feature_templates)
       THEN /\ last_event' = Event("capture_duplicate", name, "none")
            /\ UNCHANGED <<repo, store>>
       ELSE IF rows = NoCount \/ rows = 0
       THEN /\ last_event' = Event("capture_nofeatures", name, "none")
            /\ UNCHANGED <<repo, store>>
       ELSE /\ feature_templates' =
                 Put(feature_templates, name,
                     FeatureTemplate(name, DefaultThreshold, rows, rows))
            /\ template_list' = Append(template_list, name)
            /\ SaveTemplates(feature_templates')
            /\ last_event' = Event("capture", name,
                                   SaveStatus(feature_templates'))
    /\ UNCHANGED <<phase, sched, current_hwnd, shown, tick>>

\* --------------------------------------------------------------- scheduler
\* the toggle starting without the test of the dict of templates
ToggleWithoutTemplateCheck(how) ==
    /\ IF ~is_matching
       THEN IF ~current_hwnd
            THEN /\ UNCHANGED sched
                 /\ last_event' = Event("start_nowindow", how, "none")
            ELSE /\ is_matching' = TRUE
                 /\ match_timer' = 1
                 /\ timeout_pending' = FALSE
                 /\ last_event' = Event("start", how, "none")
       ELSE /\ is_matching' = FALSE
            /\ match_timer' = 0
            /\ timeout_pending' = FALSE
            /\ last_event' = Event("stop", how, "none")
    /\ UNCHANGED <<phase, current_hwnd, repo, store, shown, tick>>

\* a start handler that does not look at is_matching and arms a new QTimer
\* on every click (the model follows up to three of them)
ToggleStartsNewTimer(how) ==
    /\ IF ~current_hwnd
       THEN /\ UNCHANGED sched
            /\ last_event' = Event("start_nowindow", how, "none")
       ELSE IF feature_templates = <<>>
       THEN /\ UNCHANGED sched
            /\ last_event' = Event("start_notemplates", how, "none")
       ELSE /\ is_matching' = TRUE
            /\ match_timer' = (IF match_timer < 3 THEN match_timer + 1
                               ELSE match_timer)
            /\ timeout_pending' = FALSE
            /\ last_event' = Event("start", how, "none")
    /\ UNCHANGED <<phase, current_hwnd, repo, store, shown, tick>>

\* the toggle whose stop branch does not call match_timer.stop()
ToggleStopKeepsTimer(how) ==
    /\ IF ~is_matching
       THEN IF ~current_hwnd
            THEN /\ UNCHANGED sched
                 /\ last_event' = Event("start_nowindow", how, "none")
            ELSE IF feature_templates = <<>>
            THEN /\ UNCHANGED sched
                 /\ last_event' = Event("start_notemplates", how, "none")
            ELSE /\ is_matching' = TRUE
                 /\ match_timer' = 1
                 /\ timeout_pending' = FALSE
                 /\ last_event' = Event("start", how, "none")
       ELSE /\ is_matching' = FALSE
            /\ UNCHANGED <<match_timer, timeout_pending>>
            /\ last_event' = Event("stop", how, "none")
    /\ UNCHANGED <<phase, current_hwnd, repo, store, shown, tick>>

\* _toggle_auto_match, the slot of the start/stop button: Idle -> Running
\* when a window is connected and the dict is not empty, Running -> Idle
\* otherwise.  match_timer is the one QTimer made in __init__: start() arms
\* it, stop() disarms it and discards an expiry not yet delivered.
\* how is "" for a click delivered at once and "queued" for one made while
\* a tick was in flight; it only labels last_event.
ToggleAutoMatch(how) ==
    /\ IF ~is_matching
       THEN IF ~current_hwnd
            THEN /\ UNCHANGED sched
                 /\ last_event' = Event("start_nowindow", how, "none")
            ELSE IF feature_templates = <<>>
            THEN /\ UNCHANGED sched
                 /\ last_event' = Event("start_notemplates", how, "none")
            ELSE /\ is_matching' = TRUE
                 /\ match_timer' = 1
                 /\ timeout_pending' = FALSE
                 /\ last_event' = Event("start", how, "none")
       ELSE /\ is_matching' = FALSE
            /\ match_timer' = 0
            /\ timeout_pending' = FALSE
            /\ last_event' = Event("stop", how, "none")
    /\ UNCHANGED <<phase, current_hwnd, repo, store, shown, tick>>

\* the interval slot calling match_timer.start(v) where setInterval(v) is
\* meant: the timer is armed whatever the scheduler's state
SetIntervalStartsTimer ==
    /\ phase = "idle"
    /\ pending = <<>>
    /\ match_timer' = 1
    /\ timeout_pending' = FALSE
    /\ last_event' = Event("set_interval", "", "none")
    /\ UNCHANGED <<phase, is_matching, current_hwnd, repo, store, shown, tick,
                   pending>>

\* match_interval_spin.valueChanged -> match_timer.setInterval(v): a
\* running QTimer is restarted with the new interval, an inactive one stays
\* inactive
SetInterval ==
    /\ phase = "idle"
    /\ pending = <<>>
    /\ match_timer' = (IF match_timer > 0 THEN 1 ELSE 0)
    /\ timeout_pending' = FALSE
    /\ last_event' = Event("set_interval", "", "none")
    /\ UNCHANGED <<phase, is_matching, current_hwnd, repo, store, shown, tick,
                   pending>>

\* _perform_match copying the screenshot into current_window_image before
\* it tests it for None
PerformMatchStoresNoFrame(source, shot) ==
    /\ IF ~current_hwnd \/ feature_templates = <<>>
       THEN /\ UNCHANGED <<phase, current_window_image, tick>>
            /\ last_event' = Event("tick_guard", "", "none")
       ELSE IF shot = NoFrame
       THEN /\ current_window_image' = shot
            /\ UNCHANGED <<phase, tick>>
            /\ last_event' = Event("tick_noframe", "", "none")
       ELSE /\ phase' = "tick"
            /\ current_window_image' = shot
            /\ tick_source' = source
            /\ tick_img' = shot
            /\ tick_i' = 1
            /\ results' = <<>>
            /\ last_event' = Event("tick_begin", "", "none")
    /\ UNCHANGED <<current_hwnd, repo, store, is_matching, match_timer,
                   match_reported, current_match_results>>

\* _perform_match up to its loop: the guard, the screenshot and the copy
\* into current_window_image.  source names the caller: "timer" for a
\* timeout delivered on time, "late_timer" for one that expired during the
\* previous tick, "once" for a click on match_once_btn, "queued_once" for a
\* click made during the previous tick.
PerformMatch(source, shot) ==
    /\ IF ~current_hwnd \/ feature_templates = <<>>
       THEN /\ last_event' = Event("tick_guard", "", "none")
            /\ UNCHANGED <<phase, current_window_image, tick>>
       ELSE IF shot = NoFrame
       THEN /\ last_event' = Event("tick_noframe", "", "none")
            /\ UNCHANGED <<phase, current_window_image, tick>>
       ELSE /\ last_event' = Event("tick_begin", "", "none")
            /\ phase' = "tick"
            /\ current_window_image' = shot
            /\ tick_source' = source
            /\ tick_img' = shot
            /\ tick_i' = 1
            /\ results' = <<>>
    /\ UNCHANGED <<current_hwnd, repo, store, is_matching, match_timer,
                   match_reported, current_match_results>>

\* the locals of _perform_match are gone when it returns
TickReturns ==
    /\ phase' = "idle"
    /\ tick_source' = "none"
    /\ tick_img' = NoFrame
    /\ tick_i' = 0
    /\ results' = <<>>

\* one pass of the loop of _perform_match over feature_templates.items();
\* an exception out of _match_template is caught outside the loop, logged,
\* and ends the handler.
MatchNext ==
    /\ phase = "tick"
    /\ tick_i <= Len(feature_templates)
    /\ LET o == MatchTemplate(feature_templates[tick_i].tpl, tick_img)
       IN IF o.status = "raise"
          THEN /\ TickReturns
               /\ last_event' = Event("tick_exception",
                                      feature_templates[tick_i].key, "none")
          ELSE /\ tick_i' = tick_i + 1
               /\ results' = (IF o.status = "match"
                              THEN Append(results, o.result) ELSE results)
               /\ last_event' = Event("tick_step", "", "none")
               /\ UNCHANGED <<phase, tick_source, tick_img>>
    /\ UNCHANGED <<current_hwnd, repo, store, sched, shown, pending>>

\* a tick that arms the timer again when it has reported
ReportResultsArmsTimer ==
    /\ phase = "tick"
    /\ tick_i > Len(feature_templates)
    /\ current_match_results' = results
    /\ match_reported' = TRUE
    /\ TickReturns
    /\ match_timer' = 1
    /\ last_event' = Event("tick_done", "", "none")
    /\ UNCHANGED <<current_hwnd, repo, store, is_matching, timeout_pending,
                   current_window_image, pending>>

\* the end of _perform_match: the batch becomes current_match_results and
\* is shown (_update_result_text, _update_preview_with_matches)
ReportResults ==
    /\ phase = "tick"
    /\ tick_i > Len(feature_templates)
    /\ current_match_results' = results
    /\ match_reported' = TRUE
    /\ TickReturns
    /\ last_event' = Event("tick_done", "", "none")
    /\ UNCHANGED <<current_hwnd, repo, store, sched, current_window_image, pending>>

\* ---------------------------------------------------------------- event loop
\* clicks the model lets the operator make while a tick is in flight
Clicks == {"toggle", "match_once"}

\* a click made while _perform_match runs waits in the event queue
ClickWhileBusy(click) ==
    /\ phase = "tick"
    /\ Len(pending) < MaxPending
    /\ pending' = Append(pending, click)
    /\ UNCHANGED <<phase, current_hwnd, repo, store, sched, shown, tick, last_event>>

\* the interval of an armed timer elapses while _perform_match runs
TimerExpiresWhileBusy ==
    /\ phase = "tick"
    /\ match_timer > 0
    /\ ~timeout_pending
    /\ timeout_pending' = TRUE
    /\ UNCHANGED <<phase, current_hwnd, repo, store, is_matching, match_timer,
                   shown, tick, pending, last_event>>

\* match_timer.timeout -> _perform_match
TimerFires(shot) ==
    /\ phase = "idle"
    /\ match_timer > 0
    /\ timeout_pending' = FALSE
    /\ PerformMatch(IF timeout_pending THEN "late_timer" ELSE "timer", shot)
    /\ UNCHANGED pending

\* start_match_btn.clicked -> _toggle_auto_match
ClickToggle ==
    /\ phase = "idle"
    /\ pending = <<>>
    /\ ToggleAutoMatch("")
    /\ UNCHANGED pending

\* match_once_btn.clicked -> _perform_match
ClickMatchOnce(shot) ==
    /\ phase = "idle"
    /\ pending = <<>>
    /\ PerformMatch("once", shot)
    /\ UNCHANGED <<timeout_pending, pending>>

\* the event loop delivers the oldest waiting click once the tick returned
DeliverToggle ==
    /\ phase = "idle"
    /\ pending # <<>>
    /\ Head(pending) = "toggle"
    /\ ToggleAutoMatch("queued")
    /\ pending' = Tail(pending)

DeliverMatchOnce(shot) ==
    /\ phase = "idle"
    /\ pending # <<>>
    /\ Head(pending) = "match_once"
    /\ PerformMatch("queued_once", shot)
    /\ pending' = Tail(pending)
    /\ UNCHANGED timeout_pending

\* the other slots run when no click is waiting
Capture(name, rows) ==
    pending = <<>> /\ CaptureFeatureTemplate(name, rows) /\ UNCHANGED pending

Delete(row) ==
    pending = <<>> /\ DeleteTemplate(row) /\ UNCHANGED pending

Import(picked, data) ==
    pending = <<>> /\ ImportTemplates(picked, data) /\ UNCHANGED pending

Connect(selected, found, shot) ==
    pending = <<>> /\ ConnectToWindow(selected, found, shot) /\ UNCHANGED pending

RefreshPreview(shot) ==
    pending = <<>> /\ UpdatePreview(shot) /\ UNCHANGED pending

Shots == Frames \cup {NoFrame}

\* what the widget leaves alone under Spec
others == <<debug, pure>>

Next ==
    \/ LoadTemplates /\ UNCHANGED others
    \/ \E selected, found \in BOOLEAN, shot \in Shots :
          Connect(selected, found, shot) /\ UNCHANGED others
    \/ \E shot \in Shots : RefreshPreview(shot) /\ UNCHANGED others
    \/ \E name \in Names \cup {""}, rows \in ExtractOutcomes :
          Capture(name, rows) /\ UNCHANGED others
    \/ \E row \in 0..Len(template_list) : Delete(row) /\ UNCHANGED others
    \/ \E picked \in BOOLEAN, data \in Files :
          Import(picked, data) /\ UNCHANGED others
    \/ ClickToggle /\ UNCHANGED others
    \/ SetInterval /\ UNCHANGED others
    \/ \E shot \in Shots : ClickMatchOnce(shot) /\ UNCHANGED others
    \/ \E shot \in Shots : TimerFires(shot) /\ UNCHANGED others
    \/ MatchNext /\ UNCHANGED others
    \/ ReportResults /\ UNCHANGED others
    \/ \E click \in Clicks : ClickWhileBusy(click) /\ UNCHANGED others
    \/ TimerExpiresWhileBusy /\ UNCHANGED others
    \/ DeliverToggle /\ UNCHANGED others
    \/ \E shot \in Shots : DeliverMatchOnce(shot) /\ UNCHANGED others

Spec == Init /\ [][Next]_vars

\* ------------------------------------------------ tick with debug_visual set
\* DebugSpec follows the widget with the debug check box in play and the
\* scheduler left Idle.  With debug_visual set, _match_template shows each
\* successful match with cv2.imshow and blocks in cv2.waitKey(0) (lines
\* 894-926) until a key is pressed in that window.  waitKey runs on the GUI
\* thread and pumps the thread's window messages, so clicks on the widget's
\* buttons reach their slots while _perform_match is still inside its loop
\* over feature_templates.items().  Python raises RuntimeError ("dictionary
\* changed size during iteration") at the next step of an iteration over a
\* dict whose size is not what it was when the iterator was made; the model
\* follows a tick up to the first change of size.  A capture is one step
\* here: the key that ends its own waitKey is pressed at once.

\* debug_visual_check.toggled -> setattr(self, "debug_visual", c)
DebugVisualToggled(c) ==
    /\ phase = "idle"
    /\ debug_visual' = c
    /\ last_event' = Event("debug_visual", "", "none")
    /\ UNCHANGED <<phase, current_hwnd, repo, store, sched, shown, tick,
                   pending, di_used>>

\* match_once_btn.clicked -> _perform_match; the for statement makes the
\* iterator over the dict
DebugMatchOnce(shot) ==
    /\ ClickMatchOnce(shot)
    /\ di_used' = (IF phase' = "tick" THEN Len(feature_templates) ELSE 0)
    /\ UNCHANGED debug_visual

\* the iterator's next() finds the dict changed in size: RuntimeError,
\* caught by the except clause of _perform_match (lines 820-821)
DebugIterationFails ==
    /\ phase = "tick"
    /\ Len(feature_templates) # di_used
    /\ TickReturns
    /\ di_used' = 0
    /\ last_event' = Event("tick_runtime_error", "", "none")
    /\ UNCHANGED <<current_hwnd, repo, store, sched, shown, pending,
                   debug_visual>>

\* one pass of the loop; a match with debug_visual set enters waitKey with
\* the result built (line 884), to be appended when _match_template returns
DebugMatchNext ==
    /\ phase = "tick"
    /\ Len(feature_templates) = di_used
    /\ tick_i <= Len(feature_templates)
    /\ LET o == MatchTemplate(feature_templates[tick_i].tpl, tick_img)
       IN IF o.status = "match" /\ debug_visual
          THEN /\ phase' = "waitkey"
               /\ tick_i' = tick_i + 1
               /\ results' = Append(results, o.result)
               /\ last_event' = Event("tick_waitkey",
                                      feature_templates[tick_i].key, "none")
               /\ UNCHANGED <<tick_source, tick_img, current_hwnd, repo, store,
                              sched, shown, pending, di_used>>
          ELSE /\ MatchNext
               /\ di_used' = (IF phase' = "idle" THEN 0 ELSE di_used)
    /\ UNCHANGED debug_visual

DebugReportResults ==
    /\ Len(feature_templates) = di_used
    /\ ReportResults
    /\ di_used' = 0
    /\ UNCHANGED debug_visual

\* a key is pressed in the OpenCV window: waitKey and _match_template return
WaitKeyReturns ==
    /\ phase = "waitkey"
    /\ phase' = "tick"
    /\ UNCHANGED <<current_hwnd, repo, store, sched, shown, tick_source,
                   tick_img, tick_i, results, pending, last_event, debug>>

\* the delete and capture buttons clicked while waitKey pumps the messages
NestedDelete(row) ==
    /\ phase = "waitkey"
    /\ Len(feature_templates) = di_used
    /\ Delete(row)
    /\ UNCHANGED debug

NestedCapture(name, rows) ==
    /\ phase = "waitkey"
    /\ Len(feature_templates) = di_used
    /\ Capture(name, rows)
    /\ UNCHANGED debug

DebugNext ==
    \/ LoadTemplates /\ UNCHANGED debug /\ UNCHANGED pure
    \/ \E selected, found \in BOOLEAN, shot \in Shots :
          Connect(selected, found, shot) /\ UNCHANGED debug /\ UNCHANGED pure
    \/ \E name \in Names, rows \in ExtractOutcomes :
          phase = "idle" /\ Capture(name, rows) /\ UNCHANGED debug /\ UNCHANGED pure
    \/ \E row \in 0..Len(template_list) :
          phase = "idle" /\ Delete(row) /\ UNCHANGED debug /\ UNCHANGED pure
    \/ \E c \in BOOLEAN : DebugVisualToggled(c) /\ UNCHANGED pure
    \/ \E shot \in Shots : DebugMatchOnce(shot) /\ UNCHANGED pure
    \/ DebugMatchNext /\ UNCHANGED pure
    \/ DebugIterationFails /\ UNCHANGED pure
    \/ DebugReportResults /\ UNCHANGED pure
    \/ WaitKeyReturns /\ UNCHANGED pure
    \/ \E row \in 0..Len(template_list) : NestedDelete(row) /\ UNCHANGED pure
    \/ \E name \in Names, rows \in ExtractOutcomes :
          NestedCapture(name, rows) /\ UNCHANGED pure

DebugSpec == Init /\ [][DebugNext]_vars

\* ----------------------------------------------------- _match_template alone
\* MatchSpec: one call of _match_template on a FeatureTemplate object and
\* on what OpenCV computes for the scene, both drawn from the sets below;
\* the widget is left aside.

\* confidence_spin ranges over 0.1 .. 1.0; thresholds in percent
MatchThresholds == {DefaultThreshold, 100}

\* templates by their counts of keypoints and descriptor rows: as captured
\* (as many keypoints as rows), as loaded from a record without
\* keypoints_info or without descriptors, and with too few descriptors
MatchTemplates ==
    {FeatureTemplate("a", t, k, d) :
        t \in MatchThresholds, k \in {NoCount, 8}, d \in {NoCount, 0, 5, 8}}

\* (min, max) of the projected corners along one axis: inside the image,
\* reaching over both edges, wholly below 0, wholly beyond the far edge
CornerRanges == {<<1, 3>>, <<-2, 6>>, <<-3, -1>>, <<6, 7>>}

\* mask has one 0/1 entry per candidate, so inliers <= good
MatchScenes ==
    {Scene(d, g, h, i, xs, ys, Shape("hit")) :
        d \in {NoCount, 49, 50}, g \in {5, 6, 8}, h \in BOOLEAN,
        i \in {0, 3, 4, 8}, xs \in CornerRanges, ys \in CornerRanges}

MatchInit ==
    /\ WidgetAside
    /\ mt_template \in MatchTemplates
    /\ mt_scene \in MatchScenes
    /\ mt_return = NotCalled
    /\ ViewerIdle
    /\ UniversalNew

\* res = self._match_template(template, screenshot_img)
MatchCalled ==
    /\ mt_return = NotCalled
    /\ mt_return' = MatchPipeline(mt_template, mt_scene)
    /\ UNCHANGED <<mt_template, mt_scene, widget, debug, viewer, preview,
                   universal>>

MatchSpec == MatchInit /\ [][MatchCalled]_vars

\* ------------------------------------------------------- ImageViewer alone
ViewerInit ==
    /\ WidgetAside
    /\ MatcherIdle
    /\ UniversalNew
    /\ ViewerIdle \/ ViewerZoomed

ViewerEvent(op, emitted) == [op |-> op, emitted |-> emitted]

drag == <<_panning, _pan_last, _selecting, _sel_start, _sel_end>>

\* reset_view, called by set_image as well
ResetViewAs(op) ==
    /\ _zoom' = Q
    /\ _pan' = Point(0, 0)
    /\ _panning' = FALSE
    /\ _selecting' = FALSE
    /\ _pan_last' = None
    /\ _sel_start' = None
    /\ _sel_end' = None
    /\ UNCHANGED view_steps
    /\ viewer_event' = ViewerEvent(op, <<"zoom_changed">>)

\* set_image(pixmap)
SetImage(pixmap) ==
    IF pixmap = None
    THEN /\ _pixmap' = None
         /\ _selection' = None
         /\ viewer_event' = ViewerEvent("set_image_null", <<>>)
         /\ UNCHANGED <<_tool, _zoom, _pan, drag, view_steps>>
    ELSE /\ _pixmap' = pixmap
         /\ ResetViewAs("set_image")
         /\ UNCHANGED <<_tool, _selection>>

\* set_tool that changes the tool and leaves a drag under way as it is
SetToolKeepsDrag(tool) ==
    IF _tool # tool
    THEN /\ _tool' = tool
         /\ viewer_event' = ViewerEvent("set_tool", <<"tool_changed">>)
         /\ UNCHANGED <<_pixmap, _zoom, _pan, drag, _selection, view_steps>>
    ELSE /\ viewer_event' = ViewerEvent("set_tool", <<>>)
         /\ UNCHANGED <<_pixmap, _tool, _zoom, _pan, drag, _selection,
                        view_steps>>

\* set_tool(tool)
SetTool(tool) ==
    IF _tool # tool
    THEN /\ _tool' = tool
         /\ _panning' = FALSE
         /\ _selecting' = FALSE
         /\ _pan_last' = None
         /\ _sel_start' = None
         /\ _sel_end' = None
         /\ viewer_event' = ViewerEvent("set_tool", <<"tool_changed">>)
         /\ UNCHANGED <<_pixmap, _zoom, _pan, _selection, view_steps>>
    ELSE /\ viewer_event' = ViewerEvent("set_tool", <<>>)
         /\ UNCHANGED <<_pixmap, _tool, _zoom, _pan, drag, _selection,
                        view_steps>>

\* reset_view()
ResetView ==
    /\ ResetViewAs("reset_view")
    /\ UNCHANGED <<_pixmap, _tool, _selection>>

\* self._apply_zoom(new_zoom, anchor) called by the handler op
ZoomTo(op, new_zoom, anchor) ==
    LET z == ApplyZoom(_pixmap, _zoom, _pan, new_zoom, anchor)
    IN /\ z.changed => view_steps < MaxViewSteps
       /\ _zoom' = z.zoom
       /\ _pan' = z.pan
       /\ view_steps' = IF z.changed THEN view_steps + 1 ELSE view_steps
       /\ viewer_event' =
              ViewerEvent(op, IF z.changed THEN <<"zoom_changed">> ELSE <<>>)
       /\ UNCHANGED <<_pixmap, _tool, drag, _selection>>

\* zoom_in()
ZoomIn == ZoomTo("zoom_in", ZoomTimes(_zoom), None)

\* zoom_out()
ZoomOut == ZoomTo("zoom_out", ZoomOver(_zoom), None)

\* clear_selection()
ClearSelection ==
    /\ _selection' = None
    /\ _selecting' = FALSE
    /\ _sel_start' = None
    /\ _sel_end' = None
    /\ viewer_event' = ViewerEvent("clear_selection", <<>>)
    /\ UNCHANGED <<_pixmap, _tool, _zoom, _pan, _panning, _pan_last,
                   view_steps>>

\* an event handed to super(): the viewer does nothing with it
Ignored(op) ==
    /\ viewer_event' = ViewerEvent(op, <<>>)
    /\ UNCHANGED <<_pixmap, _tool, _zoom, _pan, drag, _selection, view_steps>>

\* mousePressEvent
MousePress(button, pos) ==
    IF button # "left" \/ _pixmap = None THEN Ignored("press_ignored")
    ELSE IF _tool = "pan"
    THEN /\ _panning' = TRUE
         /\ _pan_last' = pos
         /\ viewer_event' = ViewerEvent("press_pan", <<>>)
         /\ UNCHANGED <<_pixmap, _tool, _zoom, _pan, _selecting, _sel_start,
                        _sel_end, _selection, view_steps>>
    ELSE IF _tool = "select"
    THEN /\ _selecting' = TRUE
         /\ _sel_start' = pos
         /\ _sel_end' = pos
         /\ viewer_event' = ViewerEvent("press_select", <<>>)
         /\ UNCHANGED <<_pixmap, _tool, _zoom, _pan, _panning, _pan_last,
                        _selection, view_steps>>
    ELSE Ignored("press_ignored")

\* mouseMoveEvent
MouseMove(pos) ==
    IF _panning /\ _tool = "pan" /\ _pan_last # None
    THEN /\ pos # _pan_last => view_steps < MaxViewSteps
         /\ _pan' = Point(_pan.x + (pos.x - _pan_last.x) * Q,
                          _pan.y + (pos.y - _pan_last.y) * Q)
         /\ _pan_last' = pos
         /\ view_steps' = IF pos # _pan_last THEN view_steps + 1
                          ELSE view_steps
         /\ viewer_event' = ViewerEvent("move_pan", <<>>)
         /\ UNCHANGED <<_pixmap, _tool, _zoom, _panning, _selecting,
                        _sel_start, _sel_end, _selection>>
    ELSE IF _selecting /\ _tool = "select"
    THEN /\ _sel_end' = pos
         /\ viewer_event' = ViewerEvent("move_select", <<>>)
         /\ UNCHANGED <<_pixmap, _tool, _zoom, _pan, _panning, _pan_last,
                        _selecting, _sel_start, _selection, view_steps>>
    ELSE Ignored("move_ignored")

\* dr of mouseReleaseEvent: the rectangle between _sel_start and pos
DragRect(start, pos) ==
    Rect(Min(start.x, pos.x), Min(start.y, pos.y),
         Max(start.x, pos.x) - Min(start.x, pos.x),
         Max(start.y, pos.y) - Min(start.y, pos.y))

\* the drag from start to pos is below the threshold of mouseReleaseEvent
TooSmall(start, pos) ==
    \/ start = None
    \/ ~ (/\ DragRect(start, pos).width >= MinDrag
          /\ DragRect(start, pos).height >= MinDrag)

\* the Region mouseReleaseEvent selects for a drag from start to pos, or
\* None
Selected(pixmap, zoom, pan, start, pos) ==
    IF TooSmall(start, pos) THEN None
    ELSE BuildRegion(pixmap, zoom, pan, DragRect(start, pos))

\* mouseReleaseEvent that takes the end of the drag from the last move
\* event instead of from its own position
MouseReleaseUsesLastMove(button, pos) ==
    IF button # "left" THEN Ignored("release_ignored")
    ELSE IF _panning /\ _tool = "pan"
    THEN /\ _panning' = FALSE
         /\ _pan_last' = None
         /\ viewer_event' = ViewerEvent("release_pan", <<>>)
         /\ UNCHANGED <<_pixmap, _tool, _zoom, _pan, _selecting, _sel_start,
                        _sel_end, _selection, view_steps>>
    ELSE IF _selecting /\ _tool = "select"
    THEN LET region == Selected(_pixmap, _zoom, _pan, _sel_start, _sel_end)
         IN /\ _selection' = IF region # None THEN region ELSE _selection
            /\ viewer_event' =
                   IF region # None
                   THEN ViewerEvent("release_region", <<"region_selected">>)
                   ELSE IF TooSmall(_sel_start, _sel_end)
                   THEN ViewerEvent("release_small", <<>>)
                   ELSE ViewerEvent("release_empty", <<>>)
            /\ _selecting' = FALSE
            /\ _sel_start' = None
            /\ _sel_end' = None
            /\ UNCHANGED <<_pixmap, _tool, _zoom, _pan, _panning, _pan_last,
                           view_steps>>
    ELSE Ignored("release_ignored")

\* mouseReleaseEvent
MouseRelease(button, pos) ==
    IF button # "left" THEN Ignored("release_ignored")
    ELSE IF _panning /\ _tool = "pan"
    THEN /\ _panning' = FALSE
         /\ _pan_last' = None
         /\ viewer_event' = ViewerEvent("release_pan", <<>>)
         /\ UNCHANGED <<_pixmap, _tool, _zoom, _pan, _selecting, _sel_start,
                        _sel_end, _selection, view_steps>>
    ELSE IF _selecting /\ _tool = "select"
    THEN LET region == Selected(_pixmap, _zoom, _pan, _sel_start, pos)
         IN /\ _selection' = IF region # None THEN region ELSE _selection
            /\ viewer_event' =
                   IF region # None
                   THEN ViewerEvent("release_region", <<"region_selected">>)
                   ELSE IF TooSmall(_sel_start, pos)
                   THEN ViewerEvent("release_small", <<>>)
                   ELSE ViewerEvent("release_empty", <<>>)
            /\ _selecting' = FALSE
            /\ _sel_start' = None
            /\ _sel_end' = None
            /\ UNCHANGED <<_pixmap, _tool, _zoom, _pan, _panning, _pan_last,
                           view_steps>>
    ELSE Ignored("release_ignored")

\* angleDelta().y() of a wheel event, by its sign
WheelDeltas == {-1, 0, 1}

\* wheelEvent
Wheel(delta, pos) ==
    IF _pixmap = None \/ delta = 0 THEN Ignored("wheel_ignored")
    ELSE ZoomTo("wheel",
                IF delta > 0 THEN ZoomTimes(_zoom) ELSE ZoomOver(_zoom),
                Float(pos))

aside == <<widget, debug, matcher, preview, universal>>

\* what PreviewSpec leaves alone
held == <<widget, debug, matcher, universal>>

ViewerNext ==
    \/ \E pixmap \in Pixmaps \cup {None} : SetImage(pixmap) /\ UNCHANGED aside
    \/ \E tool \in Tools : SetTool(tool) /\ UNCHANGED aside
    \/ ResetView /\ UNCHANGED aside
    \/ ZoomIn /\ UNCHANGED aside
    \/ ZoomOut /\ UNCHANGED aside
    \/ ClearSelection /\ UNCHANGED aside
    \/ \E button \in Buttons, pos \in {p \in Points : InWidget(p)} :
           MousePress(button, pos) /\ UNCHANGED aside
    \/ \E pos \in Points : MouseMove(pos) /\ UNCHANGED aside
    \/ \E button \in Buttons, pos \in Points :
           MouseRelease(button, pos) /\ UNCHANGED aside
    \/ \E delta \in WheelDeltas, pos \in {p \in Points : InWidget(p)} :
           Wheel(delta, pos) /\ UNCHANGED aside

ViewerSpec == ViewerInit /\ [][ViewerNext]_vars

\* ---------------------------------------------- the preview in the widget
\* PreviewSpec: the widget's preview (preview_label, an ImageViewer), its
\* selected_region and the crop of _capture_feature_template; the
\* repository, the store and the scheduler are followed under Spec and are
\* left aside here.  The window image and the preview's pixmap are made
\* from the same screenshot (lines 654-663 and 807, 942-982), so _pixmap
\* gives the width and height of current_window_image.

\* the widget after __init__: preview_label.set_tool(ViewerTool.SELECT)
PreviewInit ==
    /\ WidgetAside
    /\ MatcherIdle
    /\ UniversalNew
    /\ _pixmap = None
    /\ _tool = "select"
    /\ _zoom = Q
    /\ _pan = Point(0, 0)
    /\ _panning = FALSE
    /\ _pan_last = None
    /\ _selecting = FALSE
    /\ _sel_start = None
    /\ _sel_end = None
    /\ _selection = None
    /\ viewer_event = ViewerEvent("set_tool", <<"tool_changed">>)
    /\ view_steps = 0

\* _update_preview, or a tick's _update_preview_with_matches, with a
\* screenshot of the size of pixmap
PreviewShown(pixmap) ==
    /\ SetImage(pixmap)
    /\ UNCHANGED preview

\* _set_viewer_tool(tool)
SetViewerTool(tool) ==
    /\ SetTool(tool)
    /\ UNCHANGED preview

\* _reset_viewer: reset_view(), clear_selection(), selected_region = None
ResetViewer ==
    /\ _zoom' = Q
    /\ _pan' = Point(0, 0)
    /\ _panning' = FALSE
    /\ _pan_last' = None
    /\ _selecting' = FALSE
    /\ _sel_start' = None
    /\ _sel_end' = None
    /\ _selection' = None
    /\ viewer_event' = ViewerEvent("clear_selection", <<>>)
    /\ selected_region' = None
    /\ UNCHANGED <<_pixmap, _tool, view_steps, position>>

\* _clear_region_selection, and _capture_full_screen, which makes the same
\* two assignments in the other order
ClearRegionSelection ==
    /\ ClearSelection
    /\ selected_region' = None
    /\ UNCHANGED position

\* mouseReleaseEvent on the preview; region_selected runs
\* _on_region_selected before the handler goes on
PreviewRelease(button, pos) ==
    /\ MouseRelease(button, pos)
    /\ selected_region' = IF viewer_event'.emitted = <<"region_selected">>
                          THEN _selection' ELSE selected_region
    /\ UNCHANGED position

\* the rectangle _capture_feature_template cuts out of
\* current_window_image: the selected region's image rectangle, or the
\* whole image
CropRect ==
    IF selected_region # None THEN selected_region.image
    ELSE Rect(0, 0, _pixmap.width, _pixmap.height)

\* _capture_feature_template as far as the preview goes, captured telling
\* whether it gets past its returns (no image or name, a name that is a
\* key, no features): it cuts CropRect out of the window image and, the
\* template stored, clears the selection
CaptureRegion(captured) ==
    IF _pixmap = None \/ ~captured
    THEN UNCHANGED <<viewer, preview>>
    ELSE /\ position' = CropRect
         /\ ClearSelection
         /\ selected_region' = None

PreviewNext ==
    \/ \E pixmap \in Pixmaps : PreviewShown(pixmap) /\ UNCHANGED held
    \/ \E tool \in {"select", "pan"} : SetViewerTool(tool) /\ UNCHANGED held
    \/ ResetViewer /\ UNCHANGED held
    \/ ClearRegionSelection /\ UNCHANGED held
    \/ \E button \in Buttons, pos \in {p \in Points : InWidget(p)} :
           MousePress(button, pos) /\ UNCHANGED preview /\ UNCHANGED held
    \/ \E pos \in Points :
           MouseMove(pos) /\ UNCHANGED preview /\ UNCHANGED held
    \/ \E button \in Buttons, pos \in Points :
           PreviewRelease(button, pos) /\ UNCHANGED held
    \/ \E delta \in WheelDeltas, pos \in {p \in Points : InWidget(p)} :
           Wheel(delta, pos) /\ UNCHANGED preview /\ UNCHANGED held
    \/ \E captured \in BOOLEAN : CaptureRegion(captured) /\ UNCHANGED held

PreviewSpec == PreviewInit /\ [][PreviewNext]_vars

\* ------------------------------------------------ UniversalImageViewer alone
\* UniversalSpec: one UniversalImageViewer, its zoom and pan; annotation,
\* selection, remote forwarding of mouse and keys and recording are left
\* aside, and so are the widget and the ImageViewer.

\* _min_zoom, _max_zoom and _zoom_step
UniversalMinZoom == 10

UniversalMaxZoom == 10000

ZoomStepSize == 100

\* the factors of wheelEvent for angleDelta().y() > 0 and otherwise
WheelUpFactor == 100

WheelDownFactor == 100

\* a change of zoom below this is dropped by wheelEvent
WheelDeadBand == 10

\* the ImageFeature flags the model follows
Features == {"ZOOM"}

\* the InteractionMode values the model follows
Modes == {"view", "remote"}

\* _get_image_rect: the rectangle the image is drawn in
ImageRect(pixmap, zoom_factor, pan_offset) ==
    LET cw == WidgetWidth * Q
        ch == WidgetHeight * Q
        pw == pixmap.width * Q
        ph == pixmap.height * Q
        base_scale == Min(Div(cw, pw), Div(ch, ph))
        scale == Mul(base_scale, zoom_factor)
        sw == Mul(pw, scale)
        sh == Mul(ph, scale)
    IN Rect(RoundDiv(cw - sw, 2) + pan_offset.x,
            RoundDiv(ch - sh, 2) + pan_offset.y, sw, sh)

\* QRectF.isEmpty
IsEmpty(rect) == rect.width <= 0 \/ rect.height <= 0

\* wheelEvent's new_zoom for the sign delta, after its clamp
WheelZoom(zoom_factor, delta) ==
    Max(UniversalMinZoom,
        Min(UniversalMaxZoom,
            IF delta > 0 THEN Mul(zoom_factor, WheelUpFactor)
            ELSE Mul(zoom_factor, WheelDownFactor)))

UniversalInit ==
    /\ WidgetAside
    /\ MatcherIdle
    /\ ViewerIdle
    /\ UniversalNew

\* what UniversalSpec leaves alone
apart == <<widget, debug, matcher, preview, _tool, _zoom, _pan, drag,
           _selection>>

\* set_features(features)
SetFeatures(features) ==
    /\ _features' = features
    /\ viewer_event' = ViewerEvent("set_features", <<>>)
    /\ UNCHANGED <<_mode, _pixmap, _zoom_factor, _pan_offset, view_steps>>

\* set_mode(mode)
SetMode(mode) ==
    /\ _mode' = mode
    /\ viewer_event' = ViewerEvent("set_mode",
                                   IF _mode # mode THEN <<"modeChanged">>
                                   ELSE <<>>)
    /\ UNCHANGED <<_features, _pixmap, _zoom_factor, _pan_offset, view_steps>>

\* load_image(image) with a QPixmap that is not null
LoadImage(pixmap) ==
    /\ _pixmap' = pixmap
    /\ _zoom_factor' = Q
    /\ _pan_offset' = Point(0, 0)
    /\ viewer_event' = ViewerEvent("load_image", <<"imageLoaded">>)
    /\ UNCHANGED <<_features, _mode, view_steps>>

\* zoom_in() and zoom_out(): one _zoom_step up or down, clamped
ZoomBy(op, zoom_factor) ==
    IF "ZOOM" \in _features
    THEN /\ zoom_factor # _zoom_factor => view_steps < MaxViewSteps
         /\ _zoom_factor' = zoom_factor
         /\ view_steps' = IF zoom_factor # _zoom_factor THEN view_steps + 1
                          ELSE view_steps
         /\ viewer_event' = ViewerEvent(op, <<"zoomChanged">>)
         /\ UNCHANGED <<_features, _mode, _pixmap, _pan_offset>>
    ELSE /\ viewer_event' = ViewerEvent(op, <<>>)
         /\ UNCHANGED <<_features, _mode, _pixmap, _zoom_factor, _pan_offset,
                        view_steps>>

UniversalZoomIn ==
    ZoomBy("zoom_in", Min(UniversalMaxZoom, _zoom_factor + ZoomStepSize))

UniversalZoomOut ==
    ZoomBy("zoom_out", Max(UniversalMinZoom, _zoom_factor - ZoomStepSize))

\* reset_view()
UniversalResetView ==
    /\ _zoom_factor' = Q
    /\ _pan_offset' = Point(0, 0)
    /\ viewer_event' = ViewerEvent("reset_view",
                           <<"viewReset", "zoomChanged", "panChanged">>)
    /\ UNCHANGED <<_features, _mode, _pixmap, view_steps>>

\* a handler that returns without an effect
Returned(op, emitted) ==
    /\ viewer_event' = ViewerEvent(op, emitted)
    /\ UNCHANGED <<_features, _mode, _pixmap, _zoom_factor, _pan_offset,
                   view_steps>>

\* rect.contains(pos) of display_to_normalized
Contains(rect, p) ==
    /\ ~ IsEmpty(rect)
    /\ rect.x <= p.x /\ p.x <= rect.x + rect.width
    /\ rect.y <= p.y /\ p.y <= rect.y + rect.height

\* wheelEvent with the sign of angleDelta().y() and the mouse position
UniversalWheel(delta, pos) ==
    IF "ZOOM" \notin _features \/ _pixmap = None
    THEN Returned("wheel_ignored", <<>>)
    ELSE IF _mode = "remote"
    THEN Returned("wheel_remote",
                  IF Contains(ImageRect(_pixmap, _zoom_factor, _pan_offset),
                              Float(pos))
                  THEN <<"remoteScrollEvent">> ELSE <<>>)
    ELSE LET old_rect == ImageRect(_pixmap, _zoom_factor, _pan_offset)
             p == Float(pos)
             new_zoom == WheelZoom(_zoom_factor, delta)
         IN IF IsEmpty(old_rect) THEN Returned("wheel_empty", <<>>)
            ELSE IF Abs(new_zoom - _zoom_factor) < WheelDeadBand
            THEN Returned("wheel_unchanged", <<>>)
            ELSE LET rel_x == Max(0, Min(Q, Div(p.x - old_rect.x,
                                                 old_rect.width)))
                     rel_y == Max(0, Min(Q, Div(p.y - old_rect.y,
                                                 old_rect.height)))
                     new_rect == ImageRect(_pixmap, new_zoom, _pan_offset)
                     desired_left == p.x - Mul(rel_x, new_rect.width)
                     desired_top == p.y - Mul(rel_y, new_rect.height)
                 IN /\ view_steps < MaxViewSteps
                    /\ _zoom_factor' = new_zoom
                    /\ _pan_offset' =
                           Point(_pan_offset.x + desired_left - new_rect.x,
                                 _pan_offset.y + desired_top - new_rect.y)
                    /\ view_steps' = view_steps + 1
                    /\ viewer_event' = ViewerEvent("wheel", <<"zoomChanged">>)
                    /\ UNCHANGED <<_features, _mode, _pixmap>>

UniversalNext ==
    \/ \E features \in SUBSET Features :
           SetFeatures(features) /\ UNCHANGED apart
    \/ \E mode \in Modes : SetMode(mode) /\ UNCHANGED apart
    \/ \E pixmap \in Pixmaps : LoadImage(pixmap) /\ UNCHANGED apart
    \/ UniversalZoomIn /\ UNCHANGED apart
    \/ UniversalZoomOut /\ UNCHANGED apart
    \/ UniversalResetView /\ UNCHANGED apart
    \/ \E delta \in WheelDeltas, pos \in {p \in Points : InWidget(p)} :
           UniversalWheel(delta, pos) /\ UNCHANGED apart

UniversalSpec == UniversalInit /\ [][UniversalNext]_vars

\* ------------------------------------------------------------------ claims
IsMatch(o) == o.status = "match"

\* the results a tick over templates should report for the frame image:
\* those of the templates whose match succeeds, in dict order
SucceededBatch(templates, image) ==
    LET outs == [i \in 1..Len(templates) |->
                    MatchTemplate(templates[i].tpl, image)]
        hits == SelectSeq(outs, IsMatch)
    IN [i \in 1..Len(hits) |-> hits[i].result]

\* C1: when a tick that obtained a frame has ended, normally or because
\* the pipeline raised for one template, a batch has been reported and it
\* holds the results of every template of the repository that matched.
C1_FailureDoesNotAbortBatch ==
    last_event.op \in {"tick_done", "tick_exception"}
    => /\ match_reported
       /\ current_match_results =
            SucceededBatch(feature_templates, current_window_image)

\* a store record that decodes: it has its name and its descriptors are
\* not garbled
WellFormed(e) == e.name # "" /\ e.descriptors # "garbled"

WellFormedKeys(items) ==
    {items[i].key : i \in {j \in 1..Len(items) : WellFormed(items[j].tpl)}}

\* C2: right after the load of the store the repository holds exactly the
\* well-formed entries of the file, wherever a corrupt entry sits, and no
\* key maps to None.
C2_LoadSkipsOnlyCorruptEntries ==
    last_event.op \in {"load", "load_failed"}
    => /\ Keys(feature_templates) = WellFormedKeys(templates_file)
       /\ \A i \in 1..Len(feature_templates) : ~feature_templates[i].tpl.isNone

\* the durable file holds the templates of the repository and nothing else
FileEqualsRepository ==
    /\ Keys(templates_file) = Keys(feature_templates)
    /\ \A i \in 1..Len(feature_templates) :
          /\ ~feature_templates[i].tpl.isNone
          /\ \E j \in 1..Len(templates_file) :
                /\ templates_file[j].key = feature_templates[i].key
                /\ templates_file[j].tpl = to_dict(feature_templates[i].tpl)

\* C3: right after a completed capture, deletion or import (of at least
\* one template) whose save did not fail, the durable file equals the
\* in-memory repository.
C3_FileEqualsRepositoryAfterMutation ==
    (last_event.op \in {"capture", "delete", "import"}
     /\ last_event.save # "failed")
    => FileEqualsRepository

\* C4: a capture under a name that is a key of the repository changes
\* neither the repository, nor the template list, nor the durable file, and
\* (a window image being there) ends with the duplicate-name warning.
C4_DuplicateNameRejected ==
    [][\A name \in Names, rows \in ExtractOutcomes :
          (name \in Keys(feature_templates) /\ Capture(name, rows))
          => /\ UNCHANGED <<repo, store>>
             /\ current_window_image # NoFrame
                  => last_event' = Event("capture_duplicate", name, "none")]_vars

C4_Witness ==
    /\ last_event.op = "capture_duplicate"
    /\ last_event.name \in Keys(feature_templates)
    /\ file_exists

\* C5: a capture for which the extractor returns no descriptors (None or
\* an empty matrix) changes neither the repository, nor the template list,
\* nor the durable file; when the extractor was reached (window image,
\* fresh non-empty name) it ends with the no-features warning and the
\* name is not a key of the repository.
C5_NoFeaturesRejected ==
    [][\A name \in Names \cup {""}, rows \in {NoCount, 0} :
          Capture(name, rows)
          => /\ UNCHANGED <<repo, store>>
             /\ (current_window_image # NoFrame /\ name # ""
                 /\ name \notin Keys(feature_templates))
                  => /\ last_event' = Event("capture_nofeatures", name, "none")
                     /\ name \notin Keys(feature_templates')]_vars

C5_Witness ==
    /\ last_event.op = "capture_nofeatures"
    /\ last_event.name \notin Keys(feature_templates)
    /\ feature_templates # <<>>

\* the start precondition as the code tests it: a window handle is
\* connected and the dict of templates has an entry
CanStart == current_hwnd /\ feature_templates # <<>>

\* C6: the start/stop toggle invoked on an Idle scheduler makes it Running
\* with the periodic trigger armed if and only if a window is connected and
\* the repository has an entry; otherwise the scheduler stays Idle with no
\* trigger armed or pending, so no periodic tick fires.
C6_StartIffPrecondition ==
    [][\A how \in {"", "queued"} :
          (ToggleAutoMatch(how) /\ ~is_matching)
          => /\ (is_matching' /\ match_timer' = 1) <=> CanStart
             /\ ~CanStart => (~is_matching' /\ match_timer' = 0
                              /\ ~timeout_pending')]_vars

C6_Witness ==
    /\ last_event.op = "start"
    /\ is_matching
    /\ match_timer = 1
    /\ current_hwnd
    /\ feature_templates # <<>>

\* C7: in every reachable state at most one periodic trigger is armed on
\* _perform_match, however often the start/stop button is clicked or the
\* interval is changed.
C7_AtMostOneTrigger == match_timer <= 1

C7_Witness ==
    /\ last_event.op = "set_interval"
    /\ is_matching
    /\ match_timer = 1
    /\ match_reported

PeriodicSources == {"timer", "late_timer"}

C10_BusyTriggerDropped ==
    ~(phase = "tick" /\ tick_source \in {"late_timer", "queued_once"})

\* C11: a capture or delete handled while a tick is in flight leaves that
\* tick alone: the dict the tick iterates keeps the size it had when the
\* iteration began, and no tick ends because its iteration failed on a
\* changed dict (it ends with a batch).
C11_TickIteratesSnapshot ==
    /\ phase \in {"tick", "waitkey"} => Len(feature_templates) = di_used
    /\ last_event.op # "tick_runtime_error"

\* the callers of _perform_match
TickSources == {"timer", "late_timer", "once", "queued_once"}

\* C12: a tick whose screenshot is None is skipped: the handler returns
\* with the repository, the durable file, the scheduler (state and armed
\* trigger), the current window image and the last reported batch as they
\* were, no tick in flight and nothing logged or shown; a Running scheduler
\* still has its trigger armed, so later ticks fire.
C12_NoFrameTickSkipped ==
    [][\A source \in TickSources :
          (CanStart /\ PerformMatch(source, NoFrame))
          => /\ UNCHANGED <<repo, store, is_matching, match_timer, shown>>
             /\ UNCHANGED <<phase, tick>>
             /\ last_event' = Event("tick_noframe", "", "none")
             /\ is_matching => (match_timer' = 1 /\ phase' = "idle")]_vars

C12_Witness ==
    /\ last_event.op = "tick_noframe"
    /\ is_matching
    /\ match_timer = 1
    /\ match_reported
    /\ current_match_results # <<>>
    /\ current_window_image # NoFrame

\* C13: every tick that obtained a frame ends by reporting one batch, and
\* the batch holds the result of each template of the repository whose
\* match is not None, in the order of the repository (an empty batch when
\* there is none).
C13_TickReportsOneBatch ==
    [][(phase = "tick" /\ phase' = "idle")
       => /\ last_event'.op = "tick_done"
          /\ match_reported'
          /\ current_match_results' = SucceededBatch(feature_templates, tick_img)]_vars

\* C14: a click on match once, delivered at once or after the tick during
\* which it was made, runs _perform_match once whether the scheduler is
\* Idle or Running (with a window, a template and a frame one tick begins
\* at the first template; otherwise nothing changes), and neither the
\* click nor the tick it begins changes the scheduler's state or its
\* periodic trigger.
C14_MatchOnceKeepsScheduler ==
    [][/\ \A shot \in Shots :
             (ClickMatchOnce(shot) \/ DeliverMatchOnce(shot))
             => /\ UNCHANGED sched
                /\ IF CanStart /\ shot # NoFrame
                   THEN /\ phase' = "tick"
                        /\ tick_i' = 1
                        /\ tick_img' = shot
                        /\ results' = <<>>
                   ELSE UNCHANGED <<phase, tick, shown>>
       /\ (phase = "tick" /\ tick_source \in {"once", "queued_once"})
             => UNCHANGED <<is_matching, match_timer>>]_vars

C14_Witness ==
    /\ phase = "tick"
    /\ tick_source = "once"
    /\ tick_i > 1
    /\ is_matching
    /\ match_timer = 1

\* candidates that survive the ratio test: one per template descriptor at
\* most
Candidates(t, sc) == Min(t.descriptors, sc.good)

\* the gates of the claim, read on the inputs of the call
GatesPass(t, sc) ==
    /\ t.descriptors >= 1
    /\ sc.descriptors >= 50
    /\ Candidates(t, sc) >= 6
    /\ sc.homography
    /\ Min(Candidates(t, sc), sc.inliers) * 100
         >= t.confidence_threshold * Candidates(t, sc)

\* C15: a call of _match_template returns a result exactly when every gate
\* passes and returns None when one fails; the confidence of a result lies
\* between the template's threshold and 1.
C15_MatchGates ==
    mt_return # NotCalled
    => /\ mt_return.status = "match" <=> GatesPass(mt_template, mt_scene)
       /\ ~GatesPass(mt_template, mt_scene) => mt_return.status = "none"
       /\ mt_return.status = "match"
            => /\ mt_template.confidence_threshold * mt_return.result.good
                    <= mt_return.result.inliers * 100
               /\ mt_return.result.inliers <= mt_return.result.good

\* C16: the position of every result lies inside the scene image: x, y,
\* width and height are not negative and the box ends at or before the
\* image's width and height.
C16_BoundingBoxClipped ==
    mt_return.status = "match"
    => LET pos == mt_return.result.position
       IN /\ pos.x >= 0
          /\ pos.y >= 0
          /\ pos.width >= 0
          /\ pos.height >= 0
          /\ pos.x + pos.width <= mt_scene.shape.width
          /\ pos.y + pos.height <= mt_scene.shape.height

\* a Region lies inside the image pixmap: its pixel rectangle and its
\* normalized rectangle
RegionInside(region, pixmap) ==
    /\ region.image.x >= 0
    /\ region.image.y >= 0
    /\ region.image.width >= 1
    /\ region.image.height >= 1
    /\ region.image.x + region.image.width <= pixmap.width
    /\ region.image.y + region.image.height <= pixmap.height
    /\ region.normalized.x >= 0
    /\ region.normalized.y >= 0
    /\ region.normalized.width >= 0
    /\ region.normalized.height >= 0
    /\ region.normalized.x + region.normalized.width <= Q
    /\ region.normalized.y + region.normalized.height <= Q

\* C17: every Region a drag selection emits lies inside the image, whatever
\* the zoom and pan and wherever the drag was pressed and released: its
\* pixel rectangle has x >= 0, y >= 0, width >= 1, height >= 1,
\* x + width <= image width, y + height <= image height, and its normalized
\* rectangle lies inside [0,1] x [0,1].
C17_EmittedRegionInside ==
    viewer_event.emitted = <<"region_selected">>
    => /\ _selection # None
       /\ _pixmap # None
       /\ RegionInside(_selection, _pixmap)

\* a drag over a zoomed-out image, pressed and released outside it, has
\* selected the whole image
C17_Witness ==
    /\ viewer_event.emitted = <<"region_selected">>
    /\ _zoom < Q
    /\ _pan # Point(0, 0)
    /\ _selection.image = Rect(0, 0, _pixmap.width, _pixmap.height)
    /\ _selection.normalized = Rect(0, 0, Q, Q)

\* the display rectangle dr, mapped to image space and clamped to the image,
\* is narrower than 1 image pixel in some axis
Narrow(pixmap, zoom, pan, dr) ==
    LET q1 == display_to_image(pixmap, zoom, pan, Float(Point(dr.x, dr.y)))
        q2 == display_to_image(pixmap, zoom, pan,
                               Float(Point(dr.x + dr.width, dr.y + dr.height)))
    IN /\ q1 # None
       /\ q2 # None
       /\ \/ Abs(ClampImagePoint(pixmap, q2).x
                 - ClampImagePoint(pixmap, q1).x) < Q
          \/ Abs(ClampImagePoint(pixmap, q2).y
                 - ClampImagePoint(pixmap, q1).y) < Q

\* C18: a drag whose display rectangle, mapped to image space and clamped to
\* the image, is narrower than 1 image pixel in either axis yields no Region,
\* whatever the view: the release emits nothing and stores no Region.
C18_NarrowDragYieldsNoRegion ==
    [][\A button \in Buttons, pos \in Points :
          (/\ _selecting /\ _tool = "select"
           /\ _pixmap # None /\ _sel_start # None
           /\ ~ _selecting'
           /\ Narrow(_pixmap, _zoom, _pan, DragRect(_sel_start, pos))
           /\ MouseRelease(button, pos))
          => /\ viewer_event'.emitted = <<>>
             /\ _selection' = _selection
             /\ _selection' # None => /\ _selection'.image.width >= 1
                                      /\ _selection'.image.height >= 1]_vars

\* a drag of 5 x 6 pixels released over less than one image pixel, a Region
\* selected earlier being kept
C18_Witness ==
    /\ viewer_event.op = "release_empty"
    /\ viewer_event.emitted = <<>>
    /\ _selection # None
    /\ ~ _selecting

\* C19: after any sequence of set_image, reset_view, zoom_in, zoom_out, wheel
\* events and pan drags, the zoom lies between _min_zoom (0.05) and
\* _max_zoom (40).
C19_ZoomWithinBounds ==
    /\ MinZoom <= _zoom
    /\ _zoom <= MaxZoom

\* a zoom in that was clamped at _max_zoom
C19_Witness ==
    /\ viewer_event = ViewerEvent("zoom_in", <<"zoom_changed">>)
    /\ _zoom = MaxZoom
    /\ _pixmap # None
    /\ view_steps = 1

\* new_zoom of _apply_zoom after its clamp, for a step up or down from zoom
ClampedTarget(zoom, up) ==
    Max(MinZoom, Min(MaxZoom, IF up THEN ZoomTimes(zoom)
                              ELSE ZoomOver(zoom)))

\* the step leaves the view as it was and notifies nobody
ViewKept ==
    /\ UNCHANGED <<_zoom, _pan>>
    /\ UNCHANGED <<_pixmap, _tool, drag, _selection>>
    /\ viewer_event'.emitted = <<>>

\* C20: a zoom request whose clamped target equals the current zoom, such
\* as zoom_in at _max_zoom or zoom_out at _min_zoom, returns with the view
\* unchanged: zoom and pan keep their values and zoom_changed is not
\* emitted.
C20_UnchangedZoomIsNoOp ==
    [][/\ (ClampedTarget(_zoom, TRUE) = _zoom /\ ZoomIn) => ViewKept
       /\ (ClampedTarget(_zoom, FALSE) = _zoom /\ ZoomOut) => ViewKept
       /\ \A delta \in WheelDeltas \ {0}, pos \in Points :
              (/\ _pixmap # None
               /\ ClampedTarget(_zoom, delta > 0) = _zoom
               /\ Wheel(delta, pos)) => ViewKept]_vars

\* zoom_in() called on an image shown at _max_zoom
C20_Witness ==
    /\ viewer_event = ViewerEvent("zoom_in", <<>>)
    /\ _zoom = MaxZoom
    /\ _pixmap # None
    /\ _pan # Point(0, 0)

\* the image point under anchor before and after the step
AnchorBefore(anchor) == display_to_image(_pixmap, _zoom, _pan, anchor)

AnchorAfter(anchor) == display_to_image(_pixmap', _zoom', _pan', anchor)

\* two image coordinates that differ by no more than the resolution of the
\* arithmetic: one unit of image space and one unit of display space, which
\* is Q / s units of image space at scale s
Near(a, b, s) == Abs(a - b) * s <= s + Q

\* the step keeps the image point under anchor, exactly
AnchorSame(anchor) == AnchorBefore(anchor) = AnchorAfter(anchor)

\* the step keeps the image point under anchor, within the resolution
AnchorNear(anchor) ==
    IF AnchorBefore(anchor) = None \/ AnchorAfter(anchor) = None
    THEN AnchorBefore(anchor) = AnchorAfter(anchor)
    ELSE /\ Near(AnchorBefore(anchor).x, AnchorAfter(anchor).x,
                 Scale(_pixmap', _zoom'))
         /\ Near(AnchorBefore(anchor).y, AnchorAfter(anchor).y,
                 Scale(_pixmap', _zoom'))

\* C21 as stated: _apply_zoom preserves the anchor: for every anchor and
\* every zoom target that changes the view, display_to_image(anchor) before
\* the call equals display_to_image(anchor) after it.
C21_AnchorPreserved ==
    [][<<_zoom, _pan>>' # <<_zoom, _pan>>
       => /\ (ZoomIn \/ ZoomOut) => AnchorSame(Centre)
          /\ \A delta \in WheelDeltas, pos \in Points :
                 Wheel(delta, pos) => AnchorSame(Float(pos))]_vars

\* C21 amended: display_to_image(anchor) after a call that changes the view
\* equals display_to_image(anchor) before it within the resolution of the
\* arithmetic, for zoom_in, zoom_out (anchor at the widget's centre) and
\* wheel events (anchor at the cursor), whatever the pan.
C21_AnchorPreservedWithinTolerance ==
    [][<<_zoom, _pan>>' # <<_zoom, _pan>>
       => /\ (ZoomIn \/ ZoomOut) => AnchorNear(Centre)
          /\ \A delta \in WheelDeltas, pos \in Points :
                 Wheel(delta, pos) => AnchorNear(Float(pos))]_vars

\* a wheel zoom that changed the zoom of a panned view of an image
C21_Witness ==
    /\ viewer_event = ViewerEvent("wheel", <<"zoom_changed">>)
    /\ _pixmap # None
    /\ _zoom > Q
    /\ _zoom < MaxZoom
    /\ _pan.x < 0 - 100 * Q

\* image_to_display(display_to_image(p)) in the current view
RoundTrip(p) ==
    image_to_display(_pixmap, _zoom, _pan,
                     display_to_image(_pixmap, _zoom, _pan, p))

\* two display coordinates that differ by no more than the resolution of
\* the arithmetic: one unit of display space and one unit of image space,
\* which is s / Q units of display space at scale s
NearDisplay(a, b, s) == Abs(a - b) * Q <= s + Q

\* C22 as stated: with an image loaded, image_to_display(display_to_image(p))
\* equals p for every display point p, whatever the zoom and pan.
C22_RoundTripExact ==
    _pixmap # None
    => \A pos \in Points : RoundTrip(Float(pos)) = Float(pos)

\* C22 amended: with an image loaded, image_to_display(display_to_image(p))
\* equals p within the resolution of the arithmetic, for every display
\* point p, whatever the zoom and pan.
C22_RoundTripWithinTolerance ==
    _pixmap # None
    => \A pos \in Points :
          /\ NearDisplay(RoundTrip(Float(pos)).x, Float(pos).x,
                         Scale(_pixmap, _zoom))
          /\ NearDisplay(RoundTrip(Float(pos)).y, Float(pos).y,
                         Scale(_pixmap, _zoom))

\* a zoomed and panned view of an image in which a point does not come
\* back exactly
C22_Witness ==
    /\ _pixmap # None
    /\ _zoom # Q
    /\ _pan # Point(0, 0)
    /\ view_steps = 1
    /\ \E pos \in Points : RoundTrip(Float(pos)) # Float(pos)

\* a template as a capture builds it: a descriptor matrix with rows and a
\* keypoint list with entries
HasFeatures(t) == ~t.isNone /\ t.descriptors > 0 /\ t.keypoints > 0

\* what a load reads back from what a save wrote for the template
Reloaded(t) == from_dict(to_dict(t))

ZoomAfterZoomOut == ZoomStep(_pixmap', Zoomed(TRUE, _zoom', _pan'), FALSE).zoom

\* neither the zoom_in() of the step nor the zoom_out() after it is clamped
NeitherClamped ==
    /\ ZoomTimes(_zoom) <= MaxZoom
    /\ ZoomOver(_zoom') >= MinZoom

\* two zooms that differ by no more than 1/1000 of the larger
NearZoom(a, b) == Abs(a - b) * Q <= Max(a, b)

\* C24 as stated: with an image loaded, zoom_in() from a zoom below
\* _max_zoom leaves a larger zoom, and a zoom_out() after an unclamped
\* zoom_in(), itself unclamped, leaves exactly the zoom before the zoom_in().
C24_ZoomInOutExact ==
    [][(_pixmap # None /\ ZoomIn)
       => /\ _zoom < MaxZoom => _zoom' > _zoom
          /\ NeitherClamped => ZoomAfterZoomOut = _zoom]_vars

\* C24, amended: with an image loaded, zoom_in() from a zoom below
\* _max_zoom leaves a larger zoom, and a zoom_out() after an unclamped
\* zoom_in(), itself unclamped, leaves the zoom before the zoom_in() up to
\* the rounding of the two float operations.
C24_ZoomInOutWithinTolerance ==
    [][(_pixmap # None /\ ZoomIn)
       => /\ _zoom < MaxZoom => _zoom' > _zoom
          /\ NeitherClamped => NearZoom(ZoomAfterZoomOut, _zoom)]_vars

\* an unclamped zoom_in() has taken an image's zoom past 10.0, from where
\* an unclamped zoom_out() takes it below 10.0 again
C24_Witness ==
    /\ viewer_event = ViewerEvent("zoom_in", <<"zoom_changed">>)
    /\ _pixmap # None
    /\ _zoom >= 10 * Q
    /\ _zoom < MaxZoom
    /\ ZoomOver(_zoom) < 10 * Q
    /\ ZoomOver(_zoom) >= MinZoom

\* the step leaves the drag of the SELECT tool open, with its start, and
\* neither selects nor emits
GestureKept ==
    /\ _selecting'
    /\ _sel_start' = _sel_start
    /\ _selection' = _selection
    /\ viewer_event'.emitted = <<>>
    /\ UNCHANGED <<_pixmap, _tool, _zoom, _pan>>

\* C25: with the SELECT tool a left press at p1 opens a gesture that starts
\* at p1; a move event keeps the gesture and its start and emits nothing; a
\* left release at p2 emits the Region built from the rectangle between p1
\* and p2 in the view of the release, whatever the move events in between
\* left in _sel_end, and closes the gesture, so a release emits at most once
\* and only for an open gesture.
C25_RegionFromPressAndRelease ==
    [][/\ \A button \in Buttons, pos \in Points :
              (/\ viewer_event'.op = "press_select"
               /\ MousePress(button, pos))
              => (_selecting' /\ _sel_start' = pos
                  /\ viewer_event'.emitted = <<>>)
       /\ \A pos \in Points :
              (_selecting /\ _tool = "select" /\ MouseMove(pos))
              => GestureKept
       /\ \A button \in Buttons, pos \in Points :
              (/\ viewer_event'.op \in {"release_region", "release_small",
                                        "release_empty", "release_ignored"}
               /\ MouseRelease(button, pos))
              => /\ viewer_event'.emitted # <<>>
                    => /\ _selecting /\ ~ _selecting'
                       /\ button = "left"
                       /\ _sel_start # None
                       /\ viewer_event'.emitted = <<"region_selected">>
                       /\ _selection' =
                              BuildRegion(_pixmap, _zoom, _pan,
                                          DragRect(_sel_start, pos))
                       /\ _selection'.display = DragRect(_sel_start, pos)
                 /\ (_selecting /\ _tool = "select" /\ button = "left")
                    => /\ ~ _selecting'
                       /\ viewer_event'.emitted = <<>>
                           <=> BuildRegion(_pixmap, _zoom, _pan,
                                           DragRect(_sel_start, pos)) = None
                               \/ TooSmall(_sel_start, pos)
                 /\ ~ _selecting => viewer_event'.emitted = <<>>]_vars

\* a release has emitted the Region of a drag across the widget, in a view
\* that is zoomed, and has closed the gesture
C25_Witness ==
    /\ viewer_event = ViewerEvent("release_region", <<"region_selected">>)
    /\ ~ _selecting
    /\ _sel_start = None
    /\ _sel_end = None
    /\ _tool = "select"
    /\ _zoom # Q
    /\ _selection.display.width >= MinDrag
    /\ _selection.display.height >= MinDrag

\* the names the template list shows
ListNames == {template_list[i] : i \in 1..Len(template_list)}

\* no name is shown twice
ListWithoutDuplicates ==
    \A i, j \in 1..Len(template_list) :
        template_list[i] = template_list[j] => i = j

\* C26: the names shown in the template list are exactly the keys of the
\* repository, each exactly once, so the deletion of a list entry finds its
\* template.
C26_ListEqualsRepositoryKeys ==
    /\ ListNames = Keys(feature_templates)
    /\ ListWithoutDuplicates
    /\ last_event.op # "delete_keyerror"

\* C27: whenever the scheduler is Running the start precondition holds: a
\* window is connected and the repository has an entry, also after
\* deletions made while Running.
C27_RunningKeepsPrecondition == is_matching => CanStart

\* the rectangle r lies inside an image of the size of pixmap
RectInside(r, pixmap) ==
    /\ r.x >= 0
    /\ r.y >= 0
    /\ r.width >= 1
    /\ r.height >= 1
    /\ r.x + r.width <= pixmap.width
    /\ r.y + r.height <= pixmap.height

\* C28: whenever a template is captured from a selected region, the
\* region's pixel rectangle lies inside the current window image, from
\* which the crop is taken, also when the window image was captured again
\* at another size after the selection.
C28_CaptureRegionInsideImage ==
    [][\A captured \in BOOLEAN :
          (/\ selected_region # None
           /\ position' # position
           /\ CaptureRegion(captured))
          => RectInside(selected_region.image, _pixmap)]_vars

\* a pan drag is under way only with the PAN tool and a selection drag only
\* with the SELECT tool, hence never both
DragMatchesTool ==
    /\ _panning => _tool = "pan"
    /\ _selecting => _tool = "select"
    /\ ~ (_panning /\ _selecting)

\* no drag is under way after the step
DragCancelled ==
    /\ ~ _panning'
    /\ ~ _selecting'
    /\ _pan_last' = None
    /\ _sel_start' = None
    /\ _sel_end' = None

\* C29: in every state of the viewer a pan drag implies the PAN tool and a
\* selection drag the SELECT tool, and never both are under way; set_tool
\* with another tool, and reset_view, leave no drag under way; set_tool
\* with the current tool changes nothing and emits no tool_changed.
C29_DragFollowsTool ==
    /\ []DragMatchesTool
    /\ [][/\ \A tool \in Tools :
                (viewer_event'.op = "set_tool" /\ SetTool(tool))
                => IF tool # _tool
                   THEN /\ DragCancelled
                        /\ _tool' = tool
                        /\ viewer_event'.emitted = <<"tool_changed">>
                   ELSE /\ UNCHANGED <<_pixmap, _tool, _zoom, _pan, drag,
                                       _selection>>
                        /\ viewer_event'.emitted = <<>>
          /\ (viewer_event'.op = "reset_view" /\ ResetView)
             => DragCancelled]_vars

\* a pan drag that has moved the image is under way
C29_Witness ==
    /\ _panning
    /\ _tool = "pan"
    /\ _pan_last # None
    /\ viewer_event.op = "move_pan"
    /\ _pan # Point(0, 0)
    /\ ~ _selecting

\* wheelEvent goes on to zoom: the ZOOM feature is enabled, an image is
\* loaded and the mode is not REMOTE
WheelZooms == "ZOOM" \in _features /\ _pixmap # None /\ _mode # "remote"

\* C30: when wheelEvent zooms, a wheel-up step leaves the zoom larger, or
\* equal at _max_zoom, and a wheel-down step leaves it smaller, or equal at
\* _min_zoom, so that the zoom a wheel-down step leaves is one a wheel-up
\* step raises again.
C30_WheelUpZoomsIn ==
    [][\A delta \in WheelDeltas \ {0}, pos \in Points :
          (WheelZooms /\ UniversalWheel(delta, pos))
          => IF delta > 0
             THEN /\ _zoom_factor' >= _zoom_factor
                  /\ _zoom_factor < UniversalMaxZoom
                        => _zoom_factor' > _zoom_factor
             ELSE /\ _zoom_factor' <= _zoom_factor
                  /\ _zoom_factor > UniversalMinZoom
                        => /\ _zoom_factor' < _zoom_factor
                           /\ WheelZoom(_zoom_factor', 1) > _zoom_factor']_vars

====
